---- MODULE Spec2Model ----
(***************************************************************************)
(* Model of the meeting-bot MCP server of src/index.js: its startup, the   *)
(* session registry (activeBots), the tool handlers join_meeting,          *)
(* get_transcript, speak, send_chat, leave_meeting, bot_status and         *)
(* check_connection, the shutdown handler, and the upstream platforms they *)
(* call.  A handler runs atomically from one await to the next, so every   *)
(* handler is one action for its synchronous prefix (up to the first       *)
(* upstream request) and one action per continuation (the code that runs   *)
(* when an awaited request or timer settles).                              *)
(*                                                                         *)
(* Strings the code inspects (names, speakers, meeting references,         *)
(* rendered lines) are sequences of one-character strings.                 *)
(***************************************************************************)
EXTENDS Integers, Sequences, FiniteSets, TLC

VARIABLES
    env,            \* index.js:8-13: which credentials the environment holds
    isHostedMode,   \* index.js:15, fixed at startup
    isDirectMode,   \* index.js:16, fixed at startup
    process,        \* the process: serving, or exited and with which status
    shutdown,       \* index.js:476-495: the requests of gracefulShutdown
    activeBots,     \* index.js:28, Map: bot id -> session object (a reference)
    heap,           \* the session objects the Map and the handlers refer to
    transcript,     \* upstream: the full transcript of each registered bot
    calls,          \* the tool invocations: position, locals, requests, result
    left            \* history: the bots a leave_meeting returned for, and that
                    \* no join_meeting was given since

vars == <<env, isHostedMode, isDirectMode, process, shutdown,
          activeBots, heap, transcript, calls, left>>

\* what the module computes once, when it is loaded
config == <<env, isHostedMode, isDirectMode>>

----------------------------------------------------------------------------
(* Bounds of the model *)

\* largest word end_timestamp the upstream reports
MaxTs == 2
\* largest number of transcript entries the upstream holds, over all bots,
\* in the transcript specification and in the whole-server specification
MaxEntries == 2
MaxSpeech == 1
\* largest number of termination signals that find a bot registered
MaxSignals == 1

----------------------------------------------------------------------------
(* Program constants *)

RECALL_TIMEOUT == 30000
TTS_TIMEOUT == 60000
BACKOFF_MS == 2000

\* lastTranscriptTs: null
Null == -1
\* the end_timestamp of a word that carries none, and of no word: undefined
Undefined == 0

----------------------------------------------------------------------------
(* Value domains *)

BotIds == {"b1", "b2"}
BotIndex == [b \in BotIds |-> IF b = "b1" THEN 1 ELSE 2]
\* the invocation slots; Calls are the ones the sequential specification uses
AllCalls == {"c1", "c2"}
Calls == {"c1"}
CallIndex == [c \in AllCalls |-> IF c = "c1" THEN 1 ELSE 2]
ObjIds == 1..(Cardinality(BotIds) + Cardinality(AllCalls))
NoObj == 0

Timestamps == 1..MaxTs

Agent == <<"A", "g", "e", "n", "t">>
Dana == <<"D", "a", "n", "a">>
Bot1 == <<"B", "o", "t", "1">>
\* a participant called "Agent:7"
AgentSeven == <<"A", "g", "e", "n", "t", ":", "7">>
BotNames == {Agent, Bot1}
Speakers == {Agent, Dana, AgentSeven}

\* "abc-defg-hij"
MeetCode == <<"a", "b", "c", "-", "d", "e", "f", "g", "-", "h", "i", "j">>
\* "https://zoom.us/j/123"
ZoomUrl == <<"h", "t", "t", "p", "s", ":", "/", "/", "z", "o", "o", "m", ".",
             "u", "s", "/", "j", "/", "1", "2", "3">>
\* "custom-code", "http://x", "httpx", "ftp://a", "Abc-defg-hij", "abc-defg-hi"
CustomCode == <<"c", "u", "s", "t", "o", "m", "-", "c", "o", "d", "e">>
HttpUrl == <<"h", "t", "t", "p", ":", "/", "/", "x">>
Httpx == <<"h", "t", "t", "p", "x">>
FtpUrl == <<"f", "t", "p", ":", "/", "/", "a">>
UpperCode == <<"A", "b", "c", "-", "d", "e", "f", "g", "-", "h", "i", "j">>
ShortCode == <<"a", "b", "c", "-", "d", "e", "f", "g", "-", "h", "i">>
\* the meeting_url arguments of the join specification
MeetingUrls == {MeetCode, ZoomUrl, CustomCode, HttpUrl, Httpx, FtpUrl,
                UpperCode, ShortCode, <<>>}
\* the (meeting_url, bot_name) arguments of the whole-server specification
JoinInputs == {<<MeetCode, Agent>>, <<ZoomUrl, Bot1>>}

\* an upstream transcript entry: the speaker and the end_timestamp of each
\* word, Undefined for a word that carries none
Entries == [speaker : Speakers,
            words : {<<>>} \cup {<<t>> : t \in {Undefined} \cup Timestamps}]
\* the entries of the whole-server specification
SpeechEntries == {e \in Entries : e.speaker \in {Agent, Dana} /\ e.words \in {<<>>, <<1>>}}

\* how an upstream request can settle: a 2xx response, a non-2xx response,
\* or a rejected fetch (timeout or transport error)
\* the payload of a non-2xx response: its detail and its error field, "" for
\* a field that is missing or empty
\* what a 2xx status response tells of a bot. The intermediary of Hosted
\* mode gives the status itself and the meeting reference as a string; the
\* bot platform of Direct mode gives the list of the status changes, if any,
\* and the meeting reference as a string or as an object.
StatusCodes == {"joining", "in_call"}
ChangeLists ==
    {<<>>} \cup {<<a>> : a \in StatusCodes}
           \cup {<<a, b>> : a \in StatusCodes, b \in StatusCodes}
HostedStatusData ==
    [bot_name : {Agent}, status : StatusCodes, has_changes : {FALSE},
     status_changes : {<<>>}, meeting_url : [object : {FALSE}, ref : {"m"}],
     created_at : {1}]
DirectStatusData ==
    [bot_name : {Agent}, status : {""}, has_changes : {TRUE},
     status_changes : ChangeLists, meeting_url : [object : BOOLEAN, ref : {"m"}],
     created_at : {1}]
    \cup [bot_name : {Agent}, status : {""}, has_changes : {FALSE},
          status_changes : {<<>>}, meeting_url : [object : BOOLEAN, ref : {"m"}],
          created_at : {1}]
NoStatusData ==
    [bot_name |-> <<>>, status |-> "", has_changes |-> FALSE, status_changes |-> <<>>,
     meeting_url |-> [object |-> FALSE, ref |-> ""], created_at |-> 0]

Payloads == [detail : {"", "d"}, error : {"", "e"}, estimated_duration : {Undefined},
             info : {NoStatusData}]
NoPayload == [detail |-> "", error |-> "", estimated_duration |-> Undefined,
              info |-> NoStatusData]
DetailPayload == [detail |-> "d", error |-> "", estimated_duration |-> Undefined,
                  info |-> NoStatusData]

\* the text of a speak, by its number of characters
Texts == {0, 12, 40}
BriefTexts == {12}
\* the estimated_duration of a speak response, in tenths of a second
Estimates == {15, 30}

ErrStatuses == {401, 403, 404, 429, 500, 400}
\* the statuses of the error specification: the ones the normalizer names,
\* their neighbours, and both sides of 500
Statuses == {302, 400, 401, 402, 403, 404, 405, 428, 429, 430, 499, 500, 501, 503, 599}
Responses(statuses, payloads) ==
    {[kind |-> "ok", status |-> 200, data |-> NoPayload]}
    \cup {[kind |-> "status", status |-> s, data |-> d] : s \in statuses, d \in payloads}
    \cup {[kind |-> "throw", status |-> 0, data |-> NoPayload]}
Outcomes == Responses(ErrStatuses, {DetailPayload})
NoOutcome == [kind |-> "none", status |-> 0, data |-> NoPayload]

----------------------------------------------------------------------------
(* Startup, index.js:8-25 *)

\* which of the credentials the environment holds (a missing and an empty
\* variable are alike); RECALL_TOKEN and OPENAI_KEY each have a second name
Envs == [GROUPTHINK_TOKEN : BOOLEAN, RECALL_TOKEN : BOOLEAN, OPENAI_KEY : BOOLEAN]

\* a selection that prefers the Direct credentials when it has them all
HostedModeUnlessDirect(e) == e.GROUPTHINK_TOKEN /\ ~(e.RECALL_TOKEN /\ e.OPENAI_KEY)

\* index.js:15
HostedMode(e) == e.GROUPTHINK_TOKEN
\* index.js:16
DirectMode(e) == ~HostedMode(e) /\ e.RECALL_TOKEN /\ e.OPENAI_KEY

\* index.js:18-25: without credentials the process exits before it serves
StartProcess(e) ==
    IF ~HostedMode(e) /\ ~DirectMode(e)
    THEN [state |-> "exited", code |-> 1]
    ELSE [state |-> "serving", code |-> 0]

\* one environment of each mode
HostedEnv == [GROUPTHINK_TOKEN |-> TRUE, RECALL_TOKEN |-> FALSE, OPENAI_KEY |-> FALSE]
DirectEnv == [GROUPTHINK_TOKEN |-> FALSE, RECALL_TOKEN |-> TRUE, OPENAI_KEY |-> TRUE]

NoShutdown == [log |-> <<>>, pending |-> <<>>, failed |-> {}]

----------------------------------------------------------------------------
(* String helpers *)

startsWith(s, p) == Len(s) >= Len(p) /\ SubSeq(s, 1, Len(p)) = p

LowerLetters == {"a", "b", "c", "d", "e", "f", "g", "h", "i", "j", "k", "l", "m",
                 "n", "o", "p", "q", "r", "s", "t", "u", "v", "w", "x", "y", "z"}

\* /^[a-z]{3}-[a-z]{4}-[a-z]{3}$/.test(url)
IsMeetCode(url) ==
    /\ Len(url) = 12
    /\ \A i \in {1, 2, 3, 5, 6, 7, 8, 10, 11, 12} : url[i] \in LowerLetters
    /\ url[4] = "-" /\ url[9] = "-"

MeetPrefix == <<"h", "t", "t", "p", "s", ":", "/", "/", "m", "e", "e", "t", ".",
                "g", "o", "o", "g", "l", "e", ".", "c", "o", "m", "/">>

\* a normalization that rewrites meeting codes only
NormalizeUrlCodesOnly(meeting_url) ==
    IF IsMeetCode(meeting_url) THEN MeetPrefix \o meeting_url ELSE meeting_url

\* a normalization that puts the prefix before every input
NormalizeUrlAlways(meeting_url) == MeetPrefix \o meeting_url

\* index.js:111-116
NormalizeUrl(meeting_url) ==
    IF IsMeetCode(meeting_url) THEN MeetPrefix \o meeting_url
    ELSE IF ~startsWith(meeting_url, <<"h", "t", "t", "p">>) THEN MeetPrefix \o meeting_url
    ELSE meeting_url

----------------------------------------------------------------------------
(* Error normalizer, index.js:44-55 and 97-99 *)

\* index.js:45: data?.detail || data?.error || JSON.stringify(data)
errorDetail(data) ==
    IF data.detail # "" THEN data.detail
    ELSE IF data.error # "" THEN data.error
    ELSE "json"

\* a normalizer without the rate-limit category
humanRecallErrorNoRateLimit(status, data) ==
    LET detail == errorDetail(data) IN
    CASE status = 401 -> [cat |-> "auth_failed", status |-> 0, detail |-> detail]
      [] status = 403 -> [cat |-> "not_authorized", status |-> 0, detail |-> detail]
      [] status = 404 -> [cat |-> "not_found", status |-> 0, detail |-> detail]
      [] OTHER -> IF status >= 500
                  THEN [cat |-> "service_error", status |-> status, detail |-> ""]
                  ELSE [cat |-> "api_error", status |-> status, detail |-> detail]

\* the message: its category, the status it quotes (0: none) and the detail
\* it quotes ("": none)
humanRecallError(status, data) ==
    LET detail == errorDetail(data) IN
    CASE status = 401 -> [cat |-> "auth_failed", status |-> 0, detail |-> detail]
      [] status = 403 -> [cat |-> "not_authorized", status |-> 0, detail |-> detail]
      [] status = 404 -> [cat |-> "not_found", status |-> 0, detail |-> detail]
      [] status = 429 -> [cat |-> "rate_limited", status |-> 0, detail |-> ""]
      [] OTHER -> IF status >= 500
                  THEN [cat |-> "service_error", status |-> status, detail |-> ""]
                  ELSE [cat |-> "api_error", status |-> status, detail |-> detail]

NoError == [cat |-> "", status |-> 0, detail |-> ""]

----------------------------------------------------------------------------
(* Sessions and invocations *)

\* a session object; seen and delivered are history: the length of the
\* snapshot the last successful fetch saw, and the entries returned so far
NoSession == [live |-> FALSE, name |-> <<>>, meetingUrl |-> <<>>,
              lastTranscriptTs |-> Null, seen |-> 0, delivered |-> {}]

NewSession(bot_name, url) ==
    [live |-> TRUE, name |-> bot_name, meetingUrl |-> url,
     lastTranscriptTs |-> Null, seen |-> 0, delivered |-> {}]

NoReport == [bot_name |-> <<>>, status |-> "", meeting |-> [form |-> "", ref |-> ""],
             created_at |-> 0]

NoResult == [kind |-> "none", label |-> "", via |-> "", error |-> NoError,
             bot_id |-> "", lines |-> <<>>, checks |-> <<>>, mode |-> "", active |-> 0,
             est |-> 0, wait |-> 0, report |-> NoReport]

Result(kind) == [NoResult EXCEPT !.kind = kind]

\* index.js:97-99
formatApiError(label, status, data) ==
    [NoResult EXCEPT !.kind = "api_error", !.label = label,
                     !.error = humanRecallError(status, data)]

\* a handler's promise rejected: the error left the handler uncaught
Uncaught == Result("exception")

\* one upstream request, or the backoff timer
Req(api, what, timeout) == [api |-> api, what |-> what, timeout |-> timeout]

IdleCall == [op |-> "idle", pc |-> "idle", bot_id |-> "", bot |-> NoObj,
             bot_name |-> <<>>, meeting_url |-> <<>>, url |-> <<>>,
             snap |-> <<>>, text |-> 0, attempt |-> 0, new |-> {},
             attempts |-> <<>>, log |-> <<>>, last |-> NoOutcome,
             result |-> NoResult,
             cursorBefore |-> Null, cursorAfter |-> Null,
             redelivered |-> {}, missed |-> {}, had |-> FALSE]

\* the process serves tool calls and runs continuations until it exits
Serving == process.state = "serving"

Ready(c) == Serving /\ calls[c].pc \in {"idle", "done"}

\* the upstream requests the invocation has issued, and its timers
Requests(c) == SelectSeq(calls[c].log, LAMBDA r : r.api # "timer")
Timers(c) == SelectSeq(calls[c].log, LAMBDA r : r.api = "timer")

\* history: how the request that settled last settled
Settle(cs, c, out) == [cs EXCEPT ![c].last = out]

Referenced(o, bots, cs) ==
    \/ \E b \in DOMAIN bots : bots[b] = o
    \/ \E c \in AllCalls : cs[c].bot = o

\* the least object id nothing refers to
FreeObj == CHOOSE o \in ObjIds :
               /\ ~Referenced(o, activeBots, calls)
               /\ \A p \in ObjIds : ~Referenced(p, activeBots, calls) => o <= p

\* Object identities carry no meaning, so every state names its objects the
\* same way: a registered session by its bot, a session only handlers still
\* hold by the first of them; an object nothing refers to is collected.
Place(o, bots, cs) ==
    IF \E b \in DOMAIN bots : bots[b] = o
    THEN BotIndex[CHOOSE b \in DOMAIN bots : bots[b] = o]
    ELSE IF \E c \in AllCalls : cs[c].bot = o
    THEN LET first == CHOOSE c \in AllCalls :
                          /\ cs[c].bot = o
                          /\ \A d \in AllCalls : cs[d].bot = o => CallIndex[c] <= CallIndex[d]
         IN Cardinality(BotIds) + CallIndex[first]
    ELSE NoObj

\* the next state
Commit(bots, hp, cs) ==
    /\ activeBots' = [b \in DOMAIN bots |-> Place(bots[b], bots, cs)]
    /\ calls' = [c \in AllCalls |->
                   [cs[c] EXCEPT !.bot = IF @ = NoObj THEN NoObj ELSE Place(@, bots, cs)]]
    /\ heap' = [n \in ObjIds |->
                  IF \E o \in ObjIds : Place(o, bots, cs) = n
                  THEN hp[CHOOSE o \in ObjIds : Place(o, bots, cs) = n]
                  ELSE NoSession]

\* the handler returns: its locals are gone, its requests and result remain
Finish(cs, c, result) ==
    [IdleCall EXCEPT !.op = cs[c].op, !.pc = "done", !.bot_id = cs[c].bot_id,
                     !.attempts = cs[c].attempts, !.log = cs[c].log,
                     !.result = result]

Api == IF isHostedMode THEN "groupthink" ELSE "recall"

----------------------------------------------------------------------------
(* Upstream: a participant's speech is appended to the transcript of a bot. *)
(* Only the transcript of a bot a session stands for is kept: a handler     *)
(* requests the transcript of a registered bot only, and an identifier the  *)
(* upstream issues again names a new bot, with a transcript of its own.     *)

UpstreamAppend(b, e, max) ==
    /\ Serving
    /\ b \in DOMAIN activeBots
    /\ Len(transcript["b1"]) + Len(transcript["b2"]) < max
    /\ transcript' = [transcript EXCEPT ![b] = Append(@, e)]
    /\ UNCHANGED <<config, process, shutdown, activeBots, heap, calls, left>>

----------------------------------------------------------------------------
(* join_meeting, index.js:109-172 *)

JoinMeeting(c, meeting_url, bot_name) ==
    /\ Ready(c)
    /\ calls' = [calls EXCEPT ![c] =
            [IdleCall EXCEPT !.op = "join_meeting", !.pc = "await_create",
                             !.bot_name = bot_name,
                             !.meeting_url = meeting_url,
                             !.url = NormalizeUrl(meeting_url),
                             !.log = <<Req(Api, "create", RECALL_TIMEOUT)>>]]
    /\ UNCHANGED <<config, process, shutdown, activeBots, heap, transcript, left>>

\* the registry after activeBots.set(botId, {...})
JoinRegistry(botId, o) ==
    [b \in DOMAIN activeBots \cup {botId} |-> IF b = botId THEN o ELSE activeBots[b]]

\* a join_meeting that asks once more when the first request fails
JoinSettledRetry(c, out, botId) ==
    IF out.kind # "ok" /\ Len(calls[c].log) = 1
    THEN [set |-> FALSE,
          call |-> [calls[c] EXCEPT !.log = Append(@, Req(Api, "create", RECALL_TIMEOUT))]]
    ELSE IF out.kind = "ok"
    THEN [set |-> TRUE,
          call |-> Finish(calls, c, [Result("created") EXCEPT !.bot_id = botId])]
    ELSE IF out.kind = "status"
    THEN [set |-> FALSE,
          call |-> Finish(calls, c, formatApiError("Failed to create bot", out.status, out.data))]
    ELSE [set |-> FALSE, call |-> Finish(calls, c, Uncaught)]

\* a join_meeting that registers the session whatever the upstream answered
JoinSettledSetAlways(c, out, botId) ==
    [set |-> TRUE,
     call |-> CASE out.kind = "ok" ->
                      Finish(calls, c, [Result("created") EXCEPT !.bot_id = botId])
                [] out.kind = "status" ->
                      Finish(calls, c, formatApiError("Failed to create bot",
                                                      out.status, out.data))
                [] OTHER -> Finish(calls, c, Uncaught)]

\* index.js:121-149: what the handler does with the settled request
JoinSettled(c, out, botId) ==
    CASE out.kind = "ok" ->
            [set |-> TRUE,
             call |-> Finish(calls, c, [Result("created") EXCEPT !.bot_id = botId])]
      [] out.kind = "status" ->
            [set |-> FALSE,
             call |-> Finish(calls, c, formatApiError("Failed to create bot", out.status, out.data))]
      [] OTHER -> [set |-> FALSE, call |-> Finish(calls, c, Uncaught)]

\* the upstream issues an identifier that no registered bot has
JoinMeetingResume(c, out, botId) ==
    /\ Serving
    /\ calls[c].pc = "await_create"
    /\ out.kind = "ok" => botId \notin DOMAIN activeBots
    /\ LET did == JoinSettled(c, out, botId)
           o == FreeObj
           cs == Settle([calls EXCEPT ![c] = did.call], c, out)
       IN IF did.set
          THEN /\ Commit(JoinRegistry(botId, o),
                         [heap EXCEPT ![o] = NewSession(calls[c].bot_name, calls[c].url)],
                         cs)
               /\ left' = left \ {botId}
          ELSE /\ Commit(activeBots, heap, cs)
               /\ left' = left
    /\ transcript' = [b \in BotIds |-> IF b \in DOMAIN activeBots' THEN transcript[b] ELSE <<>>]
    /\ UNCHANGED <<config, process, shutdown>>

----------------------------------------------------------------------------
(* get_transcript, index.js:182-245 *)

\* entry.words?.[entry.words.length - 1]?.end_timestamp
entryTime(entry) ==
    IF Len(entry.words) = 0 THEN Undefined ELSE entry.words[Len(entry.words)]

\* entryTime > lastTs, which is false when either side is undefined
later(time, lastTs) == time # Undefined /\ lastTs # Undefined /\ time > lastTs

\* a new-entry rule that also takes an entry at the cursor for new
newEntriesFromCursor(lastTs, snapshot) ==
    IF lastTs = Null THEN 1..Len(snapshot)
    ELSE {i \in 1..Len(snapshot) :
            \/ later(entryTime(snapshot[i]), lastTs)
            \/ entryTime(snapshot[i]) # Undefined /\ entryTime(snapshot[i]) = lastTs}

\* index.js:205-213: the indices of the new entries of the snapshot
newEntries(lastTs, snapshot) ==
    IF lastTs = Null THEN 1..Len(snapshot)
    ELSE {i \in 1..Len(snapshot) :
            entryTime(snapshot[i]) # Undefined /\ later(entryTime(snapshot[i]), lastTs)}

\* a cursor assigned without the guards: an empty snapshot, or a last entry
\* without words, makes it undefined
updateCursorUnguarded(lastTs, snapshot) ==
    IF Len(snapshot) > 0 /\ Len(snapshot[Len(snapshot)].words) > 0
    THEN entryTime(snapshot[Len(snapshot)])
    ELSE Undefined

\* index.js:216-222: the cursor after the fetch; a last word that carries no
\* end_timestamp leaves it undefined
updateCursor(lastTs, snapshot) ==
    IF Len(snapshot) > 0 /\ Len(snapshot[Len(snapshot)].words) > 0
    THEN entryTime(snapshot[Len(snapshot)])
    ELSE lastTs

\* index.js:229-233: `${speaker}: ${text}`, every word's text being "w"
RECURSIVE joinWords(_)
joinWords(words) ==
    IF Len(words) = 0 THEN <<>>
    ELSE IF Len(words) = 1 THEN <<"w">>
    ELSE <<"w", " ">> \o joinWords(Tail(words))

renderLine(entry) == entry.speaker \o <<":", " ">> \o joinWords(entry.words)

\* index.js:236: the line is the bot's own speech
isOwnLine(line, name) == startsWith(line, name \o <<":">>)

\* the indices of a set, in increasing order
RECURSIVE sorted(_)
sorted(S) ==
    IF S = {} THEN <<>>
    ELSE LET m == CHOOSE x \in S : \A y \in S : x <= y
         IN <<m>> \o sorted(S \ {m})

\* a result that filters the bot's own lines before it looks for new speech
transcriptResultFilterFirst(new, snapshot, name) ==
    LET filtered == {i \in new : ~isOwnLine(renderLine(snapshot[i]), name)} IN
    IF filtered = {} THEN Result("no_new_speech")
    ELSE [Result("lines") EXCEPT !.lines = sorted(filtered)]

\* index.js:224-244: the handler's result, lines being indices of the snapshot
transcriptResult(new, snapshot, name) ==
    LET filtered == {i \in new : ~isOwnLine(renderLine(snapshot[i]), name)} IN
    IF new = {} THEN Result("no_new_speech")
    ELSE IF filtered = {} THEN Result("own_echo")
    ELSE [Result("lines") EXCEPT !.lines = sorted(filtered)]

\* a get_transcript that looks the bot up only after asking the upstream
GetTranscriptStartAskFirst(bot_id) ==
    IF bot_id \notin DOMAIN activeBots
    THEN [IdleCall EXCEPT !.op = "get_transcript", !.pc = "done", !.bot_id = bot_id,
                          !.log = <<Req(Api, "transcript", RECALL_TIMEOUT)>>,
                          !.result = Result("unknown_bot")]
    ELSE [IdleCall EXCEPT !.op = "get_transcript", !.pc = "await_transcript",
                          !.bot_id = bot_id, !.bot = activeBots[bot_id],
                          !.snap = transcript[bot_id],
                          !.log = <<Req(Api, "transcript", RECALL_TIMEOUT)>>]

\* index.js:183-197: the lookup, and the request of a registered bot
GetTranscriptStart(bot_id) ==
    IF bot_id \notin DOMAIN activeBots
    THEN [IdleCall EXCEPT !.op = "get_transcript", !.pc = "done", !.bot_id = bot_id,
                          !.result = Result("unknown_bot")]
    ELSE [IdleCall EXCEPT !.op = "get_transcript", !.pc = "await_transcript",
                          !.bot_id = bot_id, !.bot = activeBots[bot_id],
                          !.snap = transcript[bot_id],
                          !.log = <<Req(Api, "transcript", RECALL_TIMEOUT)>>]

GetTranscript(c, bot_id) ==
    /\ Ready(c)
    /\ calls' = [calls EXCEPT ![c] = GetTranscriptStart(bot_id)]
    /\ UNCHANGED <<config, process, shutdown, activeBots, heap, transcript, left>>

\* a fetch that stores its session again once it has moved the cursor
GetTranscriptOkStoresSession(c, out) ==
    LET o == calls[c].bot
        bot == heap[o]
        snapshot == calls[c].snap
        lastTs == bot.lastTranscriptTs
        new == newEntries(lastTs, snapshot)
        res == transcriptResult(new, snapshot, bot.name)
    IN Commit([b \in DOMAIN activeBots \cup {calls[c].bot_id} |->
                  IF b = calls[c].bot_id THEN o ELSE activeBots[b]],
              [heap EXCEPT ![o] =
                  [bot EXCEPT !.lastTranscriptTs = updateCursor(lastTs, snapshot),
                              !.seen = Len(snapshot)]],
              Settle([calls EXCEPT ![c] =
                         [Finish(calls, c, res) EXCEPT
                             !.new = new,
                             !.cursorBefore = lastTs,
                             !.cursorAfter = updateCursor(lastTs, snapshot),
                             !.had = calls[c].bot_id \in DOMAIN activeBots]], c, out))

\* a 2xx response carrying the snapshot the upstream held at the request
\* (upstream snapshots of one bot are append-only: each extends the last)
GetTranscriptOk(c, out) ==
    LET o == calls[c].bot
        bot == heap[o]
        snapshot == calls[c].snap
        lastTs == bot.lastTranscriptTs
        new == newEntries(lastTs, snapshot)
        res == transcriptResult(new, snapshot, bot.name)
        returned == {res.lines[i] : i \in 1..Len(res.lines)}
        fresh == {i \in (bot.seen + 1)..Len(snapshot) :
                    ~isOwnLine(renderLine(snapshot[i]), bot.name)}
    IN Commit(activeBots,
              [heap EXCEPT ![o] =
                  [bot EXCEPT !.lastTranscriptTs = updateCursor(lastTs, snapshot),
                              !.seen = Len(snapshot),
                              !.delivered = @ \cup returned]],
              Settle([calls EXCEPT ![c] =
                         [Finish(calls, c, res) EXCEPT
                             !.new = new,
                             !.cursorBefore = lastTs,
                             !.cursorAfter = updateCursor(lastTs, snapshot),
                             !.redelivered = returned \cap bot.delivered,
                             !.missed = fresh \ returned,
                             !.had = calls[c].bot_id \in DOMAIN activeBots]], c, out))

\* a failed fetch that forgets how far the session had read
GetTranscriptFailedRewinds(c, out) ==
    Commit(activeBots,
           [heap EXCEPT ![calls[c].bot].lastTranscriptTs = Null],
           Settle([calls EXCEPT ![c] =
                     Finish(calls, c, formatApiError("Failed to get transcript",
                                                     out.status, out.data))], c, out))

\* index.js:193-195 and 205-207: a non-2xx response is reported, nothing else
GetTranscriptFailed(c, out) ==
    Commit(activeBots, heap,
           Settle([calls EXCEPT ![c] =
                     Finish(calls, c, formatApiError("Failed to get transcript",
                                                     out.status, out.data))], c, out))

GetTranscriptResume(c, out) ==
    /\ Serving
    /\ calls[c].pc = "await_transcript"
    /\ CASE out.kind = "ok" -> GetTranscriptOk(c, out)
         [] out.kind = "status" -> GetTranscriptFailed(c, out)
         [] OTHER ->
              Commit(activeBots, heap,
                     Settle([calls EXCEPT ![c] = Finish(calls, c, Uncaught)], c, out))
    /\ UNCHANGED <<config, process, shutdown, transcript, left>>

----------------------------------------------------------------------------
(* leave_meeting, index.js:368-381 *)

LeaveMeeting(c, bot_id) ==
    /\ Ready(c)
    /\ calls' = [calls EXCEPT ![c] =
            [IdleCall EXCEPT !.op = "leave_meeting", !.pc = "await_leave",
                             !.bot_id = bot_id,
                             !.log = <<Req(Api, "leave", RECALL_TIMEOUT)>>]]
    /\ UNCHANGED <<config, process, shutdown, activeBots, heap, transcript, left>>

\* a deletion that empties the registry
DeleteEveryBot(bot_id) == [b \in {} |-> NoObj]

\* the registry after activeBots.delete(bot_id)
DeleteBot(bot_id) == [b \in DOMAIN activeBots \ {bot_id} |-> activeBots[b]]

\* a leave_meeting that deletes the session inside the try block, after the
\* request: a rejected request skips the deletion
LeaveSettledDeleteInTry(c, out) ==
    [registry |-> IF out.kind = "throw" THEN activeBots ELSE DeleteBot(calls[c].bot_id),
     call |-> Finish(calls, c, Result("left"))]

\* a leave_meeting that keeps the session when the upstream refuses
LeaveSettledIfOk(c, out) ==
    [registry |-> IF out.kind = "status" THEN activeBots ELSE DeleteBot(calls[c].bot_id),
     call |-> Finish(calls, c, Result("left"))]

\* a leave_meeting that reports the failure of its request
LeaveSettledReportError(c, out) ==
    [registry |-> DeleteBot(calls[c].bot_id),
     call |-> IF out.kind = "ok" THEN Finish(calls, c, Result("left"))
              ELSE Finish(calls, c, formatApiError("Failed to leave", out.status, out.data))]

\* index.js:369-380: whatever the request did (a rejected request is caught,
\* the response is not looked at), the session is deleted and the handler
\* confirms; registry is the registry after, call the invocation after
LeaveSettled(c, out) ==
    [registry |-> DeleteBot(calls[c].bot_id),
     call |-> Finish(calls, c, Result("left"))]

LeaveMeetingResume(c, out) ==
    /\ Serving
    /\ calls[c].pc = "await_leave"
    /\ LET did == LeaveSettled(c, out) IN
       /\ Commit(did.registry, heap,
                 Settle([calls EXCEPT ![c] =
                           [did.call EXCEPT !.had = calls[c].bot_id \in DOMAIN activeBots]],
                        c, out))
       /\ left' = IF did.call.pc = "done" THEN left \cup {calls[c].bot_id} ELSE left
    /\ transcript' = [b \in BotIds |-> IF b \in DOMAIN activeBots' THEN transcript[b] ELSE <<>>]
    /\ UNCHANGED <<config, process, shutdown>>

----------------------------------------------------------------------------
(* speak, index.js:257-333 *)

\* the result of an attempt that failed, as the handler words it after a retry
SpeakFailure(via, error) ==
    [NoResult EXCEPT !.kind = "speak_failed", !.label = "Failed to speak (after retry)",
                     !.via = via, !.error = error]

\* (text.length * 0.065).toFixed(1), in tenths of a second (for a text whose
\* estimate is not halfway between two tenths)
localEstimate(text) == (text * 65 + 50) \div 100

\* Math.ceil(parseFloat(est) + 2), est in tenths of a second
waitAfter(est) == (est + 20 + 9) \div 10

\* index.js:267-269 and 272-274, 318-320 and 324-329: the success message
\* with the estimate, the upstream's if it gave one, and the wait
Spoke(kind, text, upstream) ==
    LET est == IF upstream # Undefined THEN upstream ELSE localEstimate(text) IN
    [Result(kind) EXCEPT !.est = est, !.wait = waitAfter(est)]

\* index.js:259 and 280: the first attempt starts with the handler
Speak(c, bot_id, text) ==
    /\ Ready(c)
    /\ calls' = [calls EXCEPT ![c] =
            [IdleCall EXCEPT !.op = "speak", !.bot_id = bot_id, !.attempt = 1,
                !.text = text,
                !.pc = IF isHostedMode THEN "await_speak" ELSE "await_tts",
                !.log = IF isHostedMode
                        THEN <<Req("groupthink", "speak", RECALL_TIMEOUT)>>
                        ELSE <<Req("openai", "tts", TTS_TIMEOUT)>>]]
    /\ UNCHANGED <<config, process, shutdown, activeBots, heap, transcript, left>>

\* a speak whose success message after a retry does not say so
SpeakSpokeUnmarked(c, upstream) ==
    [calls EXCEPT ![c] =
        Finish([calls EXCEPT ![c].attempts = Append(@, "ok")], c,
               Spoke("spoke", calls[c].text, upstream))]

\* a speak that always reports its own estimate
SpeakSpokeOwnEstimate(c, upstream) ==
    [calls EXCEPT ![c] =
        Finish([calls EXCEPT ![c].attempts = Append(@, "ok")], c,
               Spoke(IF calls[c].attempt = 1 THEN "spoke" ELSE "spoke_retry",
                     calls[c].text, Undefined))]

\* an attempt succeeded, at index.js:267-275 and 318-332; upstream is the
\* response's estimated_duration
SpeakSpoke(c, upstream) ==
    [calls EXCEPT ![c] =
        Finish([calls EXCEPT ![c].attempts = Append(@, "ok")], c,
               Spoke(IF calls[c].attempt = 1 THEN "spoke" ELSE "spoke_retry",
                     calls[c].text, upstream))]

\* an attempt failed with an error the handler looks at: the first time it
\* waits for the backoff timer, the second time it reports the failure
SpeakFailed(c, via, error) ==
    IF calls[c].attempt = 1
    THEN [calls EXCEPT ![c].attempts = Append(@, "fail"), ![c].pc = "backoff",
                       ![c].log = Append(@, Req("timer", "sleep", BACKOFF_MS))]
    ELSE [calls EXCEPT ![c] =
            Finish([calls EXCEPT ![c].attempts = Append(@, "fail")], c,
                   SpeakFailure(via, error))]

\* an attempt failed with an error no handler code catches
SpeakUncaught(c) ==
    [calls EXCEPT ![c] =
        Finish([calls EXCEPT ![c].attempts = Append(@, "fail")], c, Uncaught)]

\* Hosted mode, index.js:259-275: only a non-2xx response is looked at; a
\* rejected request is not caught
HostedSpeakSettled(c, out) ==
    CASE out.kind = "ok" -> SpeakSpoke(c, out.data.estimated_duration)
      [] out.kind = "status" -> SpeakFailed(c, "", humanRecallError(out.status, out.data))
      [] OTHER -> SpeakUncaught(c)

SpeakResume(c, out) ==
    /\ Serving
    /\ calls[c].pc = "await_speak"
    /\ calls' = Settle(HostedSpeakSettled(c, out), c, out)
    /\ UNCHANGED <<config, process, shutdown, activeBots, heap, transcript, left>>

\* a synthesis whose failure is put through the normalizer
TtsSettledNormalized(c, out) ==
    CASE out.kind = "ok" ->
            [calls EXCEPT ![c].pc = "await_push",
                          ![c].log = Append(@, Req("recall", "output_audio", RECALL_TIMEOUT))]
      [] out.kind = "status" ->
            SpeakFailed(c, "TTS failed", humanRecallError(out.status, out.data))
      [] OTHER -> SpeakFailed(c, "thrown", NoError)

\* a synthesis that pushes whatever it got, also after a non-2xx response
TtsSettledPushAnyway(c, out) ==
    CASE out.kind \in {"ok", "status"} ->
            [calls EXCEPT ![c].pc = "await_push",
                          ![c].log = Append(@, Req("recall", "output_audio", RECALL_TIMEOUT))]
      [] OTHER -> SpeakFailed(c, "thrown", NoError)

\* Direct mode, index.js:280-296: the synthesis request settled
TtsSettled(c, out) ==
    CASE out.kind = "ok" ->
            [calls EXCEPT ![c].pc = "await_push",
                          ![c].log = Append(@, Req("recall", "output_audio", RECALL_TIMEOUT))]
      [] out.kind = "status" ->
            SpeakFailed(c, "TTS failed",
                        [cat |-> "", status |-> out.status, detail |-> "body"])
      [] OTHER -> SpeakFailed(c, "thrown", NoError)

SpeakTtsResume(c, out) ==
    /\ Serving
    /\ calls[c].pc = "await_tts"
    /\ calls' = Settle(TtsSettled(c, out), c, out)
    /\ UNCHANGED <<config, process, shutdown, activeBots, heap, transcript, left>>

\* Direct mode, index.js:298-305: the audio push settled
PushSettled(c, out) ==
    CASE out.kind = "ok" -> SpeakSpoke(c, Undefined)
      [] out.kind = "status" ->
            SpeakFailed(c, "Failed to push audio", humanRecallError(out.status, out.data))
      [] OTHER -> SpeakFailed(c, "thrown", NoError)

SpeakPushResume(c, out) ==
    /\ Serving
    /\ calls[c].pc = "await_push"
    /\ calls' = Settle(PushSettled(c, out), c, out)
    /\ UNCHANGED <<config, process, shutdown, activeBots, heap, transcript, left>>

\* a retry that always synthesizes the speech itself
SpeakRetryDirect(c) ==
    [calls EXCEPT ![c].attempt = 2, ![c].pc = "await_tts",
                  ![c].log = Append(@, Req("openai", "tts", TTS_TIMEOUT))]

\* a retry that starts the handler over, as a first attempt
SpeakRetryStartOver(c) ==
    [calls EXCEPT ![c].attempt = 1, ![c].attempts = <<>>,
                  ![c].pc = IF isHostedMode THEN "await_speak" ELSE "await_tts",
                  ![c].log = <<IF isHostedMode
                               THEN Req("groupthink", "speak", RECALL_TIMEOUT)
                               ELSE Req("openai", "tts", TTS_TIMEOUT)>>]

\* index.js:262-263 and 312-314: the timer fired, the second attempt starts
SpeakRetry(c) ==
    [calls EXCEPT ![c].attempt = 2,
                  ![c].pc = IF isHostedMode THEN "await_speak" ELSE "await_tts",
                  ![c].log = Append(@, IF isHostedMode
                                       THEN Req("groupthink", "speak", RECALL_TIMEOUT)
                                       ELSE Req("openai", "tts", TTS_TIMEOUT))]

SpeakBackoffElapsed(c) ==
    /\ Serving
    /\ calls[c].pc = "backoff"
    /\ calls' = SpeakRetry(c)
    /\ UNCHANGED <<config, process, shutdown, activeBots, heap, transcript, left>>

----------------------------------------------------------------------------
(* send_chat, index.js:344-358 *)

\* a send_chat that looks the bot up first, as get_transcript does
SendChatKnownOnly(c, bot_id) ==
    /\ Ready(c)
    /\ calls' = [calls EXCEPT ![c] =
            IF bot_id \notin DOMAIN activeBots
            THEN [IdleCall EXCEPT !.op = "send_chat", !.pc = "done", !.bot_id = bot_id,
                                  !.result = Result("unknown_bot")]
            ELSE [IdleCall EXCEPT !.op = "send_chat", !.pc = "await_chat",
                                  !.bot_id = bot_id,
                                  !.log = <<Req(Api, "chat", RECALL_TIMEOUT)>>]]
    /\ UNCHANGED <<config, process, shutdown, activeBots, heap, transcript, left>>

SendChat(c, bot_id) ==
    /\ Ready(c)
    /\ calls' = [calls EXCEPT ![c] =
            [IdleCall EXCEPT !.op = "send_chat", !.pc = "await_chat",
                             !.bot_id = bot_id,
                             !.log = <<Req(Api, "chat", RECALL_TIMEOUT)>>]]
    /\ UNCHANGED <<config, process, shutdown, activeBots, heap, transcript, left>>

\* a send_chat that asks once more when the first request fails
ChatSettledRetry(c, out) ==
    IF out.kind # "ok" /\ Len(calls[c].log) = 1
    THEN [calls EXCEPT ![c].log = Append(@, Req(Api, "chat", RECALL_TIMEOUT))]
    ELSE IF out.kind = "ok"
    THEN [calls EXCEPT ![c] = Finish(calls, c, Result("chat_sent"))]
    ELSE IF out.kind = "status"
    THEN [calls EXCEPT ![c] =
            Finish(calls, c, formatApiError("Failed to send chat", out.status, out.data))]
    ELSE [calls EXCEPT ![c] = Finish(calls, c, Uncaught)]

\* index.js:346-357: the single request settled; nothing is retried, and a
\* rejected request is not caught
ChatSettled(c, out) ==
    CASE out.kind = "ok" -> [calls EXCEPT ![c] = Finish(calls, c, Result("chat_sent"))]
      [] out.kind = "status" ->
            [calls EXCEPT ![c] =
                Finish(calls, c, formatApiError("Failed to send chat", out.status, out.data))]
      [] OTHER -> [calls EXCEPT ![c] = Finish(calls, c, Uncaught)]

SendChatResume(c, out) ==
    /\ Serving
    /\ calls[c].pc = "await_chat"
    /\ calls' = Settle(ChatSettled(c, out), c, out)
    /\ UNCHANGED <<config, process, shutdown, activeBots, heap, transcript, left>>

----------------------------------------------------------------------------
(* bot_status, index.js:391-423 *)

BotStatus(c, bot_id) ==
    /\ Ready(c)
    /\ calls' = [calls EXCEPT ![c] =
            [IdleCall EXCEPT !.op = "bot_status", !.pc = "await_status",
                             !.bot_id = bot_id,
                             !.log = <<Req(Api, "status", RECALL_TIMEOUT)>>]]
    /\ UNCHANGED <<config, process, shutdown, activeBots, heap, transcript, left>>

\* the code of the first status change
firstCode(data) ==
    LET statuses == IF data.has_changes THEN data.status_changes ELSE <<>> IN
    IF Len(statuses) = 0 \/ statuses[1] = "" THEN "unknown" ELSE statuses[1]

\* index.js:409-410 and 416: latest?.code || "unknown", latest being the last
\* element of data.status_changes || []
latestCode(data) ==
    LET statuses == IF data.has_changes THEN data.status_changes ELSE <<>> IN
    IF Len(statuses) = 0 \/ statuses[Len(statuses)] = ""
    THEN "unknown"
    ELSE statuses[Len(statuses)]

\* index.js:398-403 and 412-418: the text of a successful bot_status; Direct
\* mode writes a meeting reference that is not a string as JSON, Hosted mode
\* writes whatever it got into the template
StatusReport(data) ==
    [bot_name |-> data.bot_name,
     status |-> IF isHostedMode THEN data.status ELSE latestCode(data),
     meeting |-> [form |-> IF ~data.meeting_url.object THEN "string"
                           ELSE IF isHostedMode THEN "object Object" ELSE "json",
                  ref |-> data.meeting_url.ref],
     created_at |-> data.created_at]

\* index.js:393-422: a rejected request is not caught
StatusSettled(c, out) ==
    CASE out.kind = "ok" ->
            [calls EXCEPT ![c] =
                Finish(calls, c, [Result("status") EXCEPT
                                     !.report = StatusReport(out.data.info)])]
      [] out.kind = "status" ->
            [calls EXCEPT ![c] =
                Finish(calls, c, formatApiError("Failed to check status",
                                                out.status, out.data))]
      [] OTHER -> [calls EXCEPT ![c] = Finish(calls, c, Uncaught)]

BotStatusResume(c, out) ==
    /\ Serving
    /\ calls[c].pc = "await_status"
    /\ calls' = Settle(StatusSettled(c, out), c, out)
    /\ UNCHANGED <<config, process, shutdown, activeBots, heap, transcript, left>>

----------------------------------------------------------------------------
(* check_connection, index.js:431-472 *)

\* the error of a rejected request, err.message
ThrownError == [cat |-> "thrown", status |-> 0, detail |-> ""]

\* one line of the report: the platform and what its check found; out is
\* history, the response the line was made from
Check(api, out, error) == [api |-> api, ok |-> out.kind = "ok", out |-> out, error |-> error]

\* index.js:436-442 and 446-452: humanRecallError(status, {})
PlatformCheck(api, out) ==
    Check(api, out,
          CASE out.kind = "ok" -> NoError
            [] out.kind = "status" -> humanRecallError(out.status, NoPayload)
            [] OTHER -> ThrownError)

\* index.js:456-465: `${res.status} - check your OPENAI_KEY`
OpenAiCheck(out) ==
    Check("openai", out,
          CASE out.kind = "ok" -> NoError
            [] out.kind = "status" -> [cat |-> "", status |-> out.status, detail |-> ""]
            [] OTHER -> ThrownError)

\* index.js:468-471: the report
ConnectionReport(checks) ==
    [Result("connection") EXCEPT
        !.checks = checks,
        !.mode = IF isHostedMode THEN "hosted" ELSE "direct",
        !.active = Cardinality(DOMAIN activeBots)]

CheckConnection(c) ==
    /\ Ready(c)
    /\ calls' = [calls EXCEPT ![c] =
            [IdleCall EXCEPT !.op = "check_connection", !.pc = "await_check",
                             !.log = <<Req(Api, "list", RECALL_TIMEOUT)>>]]
    /\ UNCHANGED <<config, process, shutdown, activeBots, heap, transcript, left>>

\* the check of the bot platform (Direct) or of the intermediary (Hosted)
\* settled: Hosted mode reports, Direct mode goes on to check the synthesis
\* platform
CheckSettled(c, out) ==
    LET checks == <<PlatformCheck(Api, out)>> IN
    IF isHostedMode
    THEN [calls EXCEPT ![c] = Finish(calls, c, ConnectionReport(checks))]
    ELSE [calls EXCEPT ![c].pc = "await_check_openai",
                       ![c].result.checks = checks,
                       ![c].log = Append(@, Req("openai", "models", RECALL_TIMEOUT))]

CheckConnectionResume(c, out) ==
    /\ Serving
    /\ calls[c].pc = "await_check"
    /\ calls' = Settle(CheckSettled(c, out), c, out)
    /\ UNCHANGED <<config, process, shutdown, activeBots, heap, transcript, left>>

OpenAiCheckSettled(c, out) ==
    [calls EXCEPT ![c] =
        Finish(calls, c,
               ConnectionReport(Append(calls[c].result.checks, OpenAiCheck(out))))]

CheckOpenAiResume(c, out) ==
    /\ Serving
    /\ calls[c].pc = "await_check_openai"
    /\ calls' = Settle(OpenAiCheckSettled(c, out), c, out)
    /\ UNCHANGED <<config, process, shutdown, activeBots, heap, transcript, left>>

----------------------------------------------------------------------------
(* gracefulShutdown, index.js:476-498 *)

BotSeq == <<"b1", "b2">>

\* index.js:481-487: one leave request for every key of the registry (the
\* model lists them by identifier, it does not keep the Map's insertion order)
LeaveRequests ==
    LET keys == SelectSeq(BotSeq, LAMBDA b : b \in DOMAIN activeBots) IN
    [i \in 1..Len(keys) |->
        [api |-> Api, what |-> "leave", timeout |-> RECALL_TIMEOUT, bot |-> keys[i]]]

\* a termination signal: with no bot registered the process exits at once,
\* else every leave request is issued, and the handler waits for them all;
\* at most max signals find a bot registered
Signal(max) ==
    /\ Serving
    /\ IF DOMAIN activeBots = {}
       THEN /\ process' = [state |-> "exited", code |-> 0]
            /\ UNCHANGED shutdown
       ELSE /\ Len(shutdown.pending) < max
            /\ shutdown' = [shutdown EXCEPT
                                !.log = @ \o LeaveRequests,
                                !.pending = Append(@, DOMAIN activeBots)]
            /\ UNCHANGED process
    /\ UNCHANGED <<config, activeBots, heap, transcript, calls, left>>

GracefulShutdown == Signal(MaxSignals)

\* a shutdown that takes a bot out of the registry when its leave has settled
ShutdownSettledDeletes(i, b, out) ==
    /\ Serving
    /\ i \in DOMAIN shutdown.pending
    /\ b \in shutdown.pending[i]
    /\ shutdown' = [shutdown EXCEPT
            !.pending[i] = @ \ {b},
            !.failed = IF out.kind = "ok" THEN @ ELSE @ \cup {b}]
    /\ process' = IF shutdown.pending[i] = {b}
                  THEN [state |-> "exited", code |-> 0]
                  ELSE process
    /\ Commit([x \in DOMAIN activeBots \ {b} |-> activeBots[x]], heap, calls)
    /\ UNCHANGED <<config, transcript, left>>

\* a shutdown that exits as soon as one of its leave requests has settled
ShutdownSettledFirst(i, b, out) ==
    /\ Serving
    /\ i \in DOMAIN shutdown.pending
    /\ b \in shutdown.pending[i]
    /\ shutdown' = [shutdown EXCEPT
            !.pending[i] = @ \ {b},
            !.failed = IF out.kind = "ok" THEN @ ELSE @ \cup {b}]
    /\ process' = [state |-> "exited", code |-> 0]
    /\ UNCHANGED <<config, activeBots, heap, transcript, calls, left>>

\* index.js:482-494: a leave request of the i-th shutdown settled, however it
\* did (failed keeps the bots whose request did not succeed); when it is the
\* last one of that shutdown, the process exits
ShutdownSettled(i, b, out) ==
    /\ Serving
    /\ i \in DOMAIN shutdown.pending
    /\ b \in shutdown.pending[i]
    /\ shutdown' = [shutdown EXCEPT
            !.pending[i] = @ \ {b},
            !.failed = IF out.kind = "ok" THEN @ ELSE @ \cup {b}]
    /\ process' = IF shutdown.pending[i] = {b}
                  THEN [state |-> "exited", code |-> 0]
                  ELSE process
    /\ UNCHANGED <<config, activeBots, heap, transcript, calls, left>>

----------------------------------------------------------------------------
(* Specifications *)

\* the process started in one of the environments envs
Start(envs) ==
    /\ env \in envs
    /\ isHostedMode = HostedMode(env)
    /\ isDirectMode = DirectMode(env)
    /\ process = StartProcess(env)
    /\ shutdown = NoShutdown
    /\ activeBots = [b \in {} |-> NoObj]
    /\ heap = [o \in ObjIds |-> NoSession]
    /\ transcript = [b \in BotIds |-> <<>>]
    /\ calls = [c \in AllCalls |-> IdleCall]
    /\ left = {}

Init == Start({HostedEnv, DirectEnv})

\* The whole server, one invocation at a time.
Next ==
    \/ \E b \in BotIds, e \in SpeechEntries : UpstreamAppend(b, e, MaxSpeech)
    \/ \E c \in Calls, in \in JoinInputs : JoinMeeting(c, in[1], in[2])
    \/ \E c \in Calls, out \in Outcomes, b \in BotIds : JoinMeetingResume(c, out, b)
    \/ \E c \in Calls, b \in BotIds : GetTranscript(c, b)
    \/ \E c \in Calls, out \in Outcomes : GetTranscriptResume(c, out)
    \/ \E c \in Calls, b \in BotIds, t \in BriefTexts : Speak(c, b, t)
    \/ \E c \in Calls, out \in Outcomes : SpeakResume(c, out)
    \/ \E c \in Calls, out \in Outcomes : SpeakTtsResume(c, out)
    \/ \E c \in Calls, out \in Outcomes : SpeakPushResume(c, out)
    \/ \E c \in Calls : SpeakBackoffElapsed(c)
    \/ \E c \in Calls, b \in BotIds : SendChat(c, b)
    \/ \E c \in Calls, out \in Outcomes : SendChatResume(c, out)
    \/ \E c \in Calls, b \in BotIds : LeaveMeeting(c, b)
    \/ \E c \in Calls, out \in Outcomes : LeaveMeetingResume(c, out)

Spec == Init /\ [][Next]_vars

\* The transcript of one bot: join_meeting, get_transcript and leave_meeting
\* on one identifier, with a longer upstream transcript.
TranscriptBots == {"b1"}
TranscriptOutcomes == {out \in Outcomes : out.status \in {200, 500, 0}}

NextTranscript ==
    \/ \E b \in TranscriptBots, e \in Entries : UpstreamAppend(b, e, MaxEntries)
    \/ \E c \in Calls : JoinMeeting(c, MeetCode, Agent)
    \/ \E c \in Calls, out \in TranscriptOutcomes, b \in TranscriptBots :
          JoinMeetingResume(c, out, b)
    \/ \E c \in Calls, b \in TranscriptBots : GetTranscript(c, b)
    \/ \E c \in Calls, out \in TranscriptOutcomes : GetTranscriptResume(c, out)
    \/ \E c \in Calls, b \in TranscriptBots : LeaveMeeting(c, b)
    \/ \E c \in Calls, out \in TranscriptOutcomes : LeaveMeetingResume(c, out)

SpecTranscript == Init /\ [][NextTranscript]_vars

\* Joining and leaving, with every kind of meeting reference.
NextJoin ==
    \/ \E c \in Calls, u \in MeetingUrls, n \in BotNames : JoinMeeting(c, u, n)
    \/ \E c \in Calls, out \in TranscriptOutcomes, b \in BotIds :
          JoinMeetingResume(c, out, b)
    \/ \E c \in Calls, b \in BotIds : LeaveMeeting(c, b)
    \/ \E c \in Calls, out \in TranscriptOutcomes : LeaveMeetingResume(c, out)

SpecJoin == Init /\ [][NextJoin]_vars

\* The failures the tools report: every tool on one bot, with every status
\* and payload of the error specification.
ErrorOutcomes == Responses(Statuses, Payloads)

NextErrors ==
    \/ \E c \in Calls : JoinMeeting(c, MeetCode, Agent)
    \/ \E c \in Calls, out \in ErrorOutcomes, b \in TranscriptBots :
          JoinMeetingResume(c, out, b)
    \/ \E c \in Calls, b \in TranscriptBots : GetTranscript(c, b)
    \/ \E c \in Calls, out \in ErrorOutcomes : GetTranscriptResume(c, out)
    \/ \E c \in Calls, b \in TranscriptBots, t \in BriefTexts : Speak(c, b, t)
    \/ \E c \in Calls, out \in ErrorOutcomes : SpeakResume(c, out)
    \/ \E c \in Calls, out \in ErrorOutcomes : SpeakTtsResume(c, out)
    \/ \E c \in Calls, out \in ErrorOutcomes : SpeakPushResume(c, out)
    \/ \E c \in Calls : SpeakBackoffElapsed(c)
    \/ \E c \in Calls, b \in TranscriptBots : SendChat(c, b)
    \/ \E c \in Calls, out \in ErrorOutcomes : SendChatResume(c, out)
    \/ \E c \in Calls, b \in TranscriptBots : LeaveMeeting(c, b)
    \/ \E c \in Calls, out \in ErrorOutcomes : LeaveMeetingResume(c, out)
    \/ \E c \in Calls, b \in TranscriptBots : BotStatus(c, b)
    \/ \E c \in Calls, out \in ErrorOutcomes : BotStatusResume(c, out)
    \/ \E c \in Calls : CheckConnection(c)
    \/ \E c \in Calls, out \in ErrorOutcomes : CheckConnectionResume(c, out)
    \/ \E c \in Calls, out \in ErrorOutcomes : CheckOpenAiResume(c, out)

SpecErrors == Init /\ [][NextErrors]_vars

\* Two invocations in flight at a time, one on each bot: the handlers
\* interleave at their awaits. The invocation of slot c works on bot OnBot(c).
ConcurrentOutcomes == {out \in Outcomes : out.status \in {200, 500}}
ConcurrentEntries == {e \in SpeechEntries : e.words # <<>>}
OnBot(c) == IF c = "c1" THEN "b1" ELSE "b2"

NextConcurrent ==
    \/ \E b \in BotIds, e \in ConcurrentEntries : UpstreamAppend(b, e, MaxSpeech)
    \/ \E c \in Calls : JoinMeeting(c, MeetCode, Agent)
    \/ \E c \in Calls, out \in ConcurrentOutcomes, b \in BotIds :
          JoinMeetingResume(c, out, b)
    \/ \E c \in AllCalls : GetTranscript(c, OnBot(c))
    \/ \E c \in AllCalls, out \in ConcurrentOutcomes : GetTranscriptResume(c, out)
    \/ \E c \in AllCalls, t \in BriefTexts : Speak(c, OnBot(c), t)
    \/ \E c \in AllCalls, out \in ConcurrentOutcomes : SpeakResume(c, out)
    \/ \E c \in AllCalls, out \in ConcurrentOutcomes : SpeakTtsResume(c, out)
    \/ \E c \in AllCalls, out \in ConcurrentOutcomes : SpeakPushResume(c, out)
    \/ \E c \in AllCalls : SpeakBackoffElapsed(c)
    \/ \E c \in AllCalls : SendChat(c, OnBot(c))
    \/ \E c \in AllCalls, out \in ConcurrentOutcomes : SendChatResume(c, out)
    \/ \E c \in AllCalls : LeaveMeeting(c, OnBot(c))
    \/ \E c \in AllCalls, out \in ConcurrentOutcomes : LeaveMeetingResume(c, out)
    \/ \E c \in AllCalls : BotStatus(c, OnBot(c))
    \/ \E c \in AllCalls, out \in ConcurrentOutcomes : BotStatusResume(c, out)

SpecConcurrent == Init /\ [][NextConcurrent]_vars

\* The registry: every operation and the shutdown, one invocation at a time,
\* while the participants of the meeting of b1 speak.
NextRegistry ==
    \/ \E b \in TranscriptBots, e \in ConcurrentEntries : UpstreamAppend(b, e, MaxSpeech)
    \/ \E c \in Calls : JoinMeeting(c, MeetCode, Agent)
    \/ \E c \in Calls, out \in ConcurrentOutcomes, b \in BotIds :
          JoinMeetingResume(c, out, b)
    \/ \E c \in Calls, b \in BotIds : GetTranscript(c, b)
    \/ \E c \in Calls, out \in ConcurrentOutcomes : GetTranscriptResume(c, out)
    \/ \E c \in Calls, b \in BotIds, t \in BriefTexts : Speak(c, b, t)
    \/ \E c \in Calls, out \in ConcurrentOutcomes : SpeakResume(c, out)
    \/ \E c \in Calls, out \in ConcurrentOutcomes : SpeakTtsResume(c, out)
    \/ \E c \in Calls, out \in ConcurrentOutcomes : SpeakPushResume(c, out)
    \/ \E c \in Calls : SpeakBackoffElapsed(c)
    \/ \E c \in Calls, b \in BotIds : SendChat(c, b)
    \/ \E c \in Calls, out \in ConcurrentOutcomes : SendChatResume(c, out)
    \/ \E c \in Calls, b \in BotIds : LeaveMeeting(c, b)
    \/ \E c \in Calls, out \in ConcurrentOutcomes : LeaveMeetingResume(c, out)
    \/ \E c \in Calls, b \in BotIds : BotStatus(c, b)
    \/ \E c \in Calls, out \in ConcurrentOutcomes : BotStatusResume(c, out)
    \/ \E c \in Calls : CheckConnection(c)
    \/ \E c \in Calls, out \in ConcurrentOutcomes : CheckConnectionResume(c, out)
    \/ \E c \in Calls, out \in ConcurrentOutcomes : CheckOpenAiResume(c, out)
    \/ GracefulShutdown
    \/ \E i \in 1..MaxSignals, b \in BotIds, out \in ConcurrentOutcomes :
          ShutdownSettled(i, b, out)

SpecRegistry == Init /\ [][NextRegistry]_vars

\* Two invocations in flight at a time on the same bot: fetches and leaves
\* overlap, while the upstream appends well-formed entries in the order of
\* their timestamps.
OrderedEntries(b) ==
    {e \in Entries :
        /\ e.speaker = Dana
        /\ e.words # <<>> /\ entryTime(e) # Undefined
        /\ \A i \in 1..Len(transcript[b]) : entryTime(e) > entryTime(transcript[b][i])}

NextOverlap ==
    \/ \E b \in TranscriptBots : \E e \in OrderedEntries(b) :
          UpstreamAppend(b, e, MaxEntries)
    \/ \E c \in Calls : JoinMeeting(c, MeetCode, Agent)
    \/ \E c \in Calls, out \in ConcurrentOutcomes, b \in TranscriptBots :
          JoinMeetingResume(c, out, b)
    \/ \E c \in AllCalls, b \in TranscriptBots : GetTranscript(c, b)
    \/ \E c \in AllCalls, out \in ConcurrentOutcomes : GetTranscriptResume(c, out)
    \/ \E c \in AllCalls, b \in TranscriptBots : LeaveMeeting(c, b)
    \/ \E c \in AllCalls, out \in ConcurrentOutcomes : LeaveMeetingResume(c, out)

SpecOverlap == Init /\ [][NextOverlap]_vars

\* The shutdown with a repeated signal: one signal more than elsewhere may
\* find bots registered, while bots join and leave.
NextShutdown ==
    \/ \E c \in Calls : JoinMeeting(c, MeetCode, Agent)
    \/ \E c \in Calls, out \in TranscriptOutcomes, b \in BotIds :
          JoinMeetingResume(c, out, b)
    \/ \E c \in Calls, b \in BotIds : LeaveMeeting(c, b)
    \/ \E c \in Calls, out \in TranscriptOutcomes : LeaveMeetingResume(c, out)
    \/ Signal(MaxSignals + 1)
    \/ \E i \in 1..(MaxSignals + 1), b \in BotIds, out \in TranscriptOutcomes :
          ShutdownSettled(i, b, out)

SpecShutdown == Init /\ [][NextShutdown]_vars

\* The status of a bot: registered or not, with every status response of
\* the mode.
StatusOutcomes ==
    TranscriptOutcomes
    \cup {[kind |-> "ok", status |-> 200, data |-> [NoPayload EXCEPT !.info = d]] :
            d \in IF isHostedMode THEN HostedStatusData ELSE DirectStatusData}

NextStatus ==
    \/ \E c \in Calls : JoinMeeting(c, MeetCode, Agent)
    \/ \E c \in Calls, out \in TranscriptOutcomes, b \in BotIds :
          JoinMeetingResume(c, out, b)
    \/ \E c \in Calls, b \in BotIds : BotStatus(c, b)
    \/ \E c \in Calls, out \in StatusOutcomes : BotStatusResume(c, out)

SpecStatus == Init /\ [][NextStatus]_vars

\* Speaking: texts of several lengths, and responses with and without an
\* estimate of the duration.
SpeakOutcomes ==
    TranscriptOutcomes
    \cup {[kind |-> "ok", status |-> 200,
           data |-> [NoPayload EXCEPT !.estimated_duration = e]] : e \in Estimates}

NextSpeak ==
    \/ \E c \in Calls, b \in TranscriptBots, t \in Texts : Speak(c, b, t)
    \/ \E c \in Calls, out \in SpeakOutcomes : SpeakResume(c, out)
    \/ \E c \in Calls, out \in SpeakOutcomes : SpeakTtsResume(c, out)
    \/ \E c \in Calls, out \in SpeakOutcomes : SpeakPushResume(c, out)
    \/ \E c \in Calls : SpeakBackoffElapsed(c)

SpecSpeak == Init /\ [][NextSpeak]_vars

\* The life of the process: every environment it can start in, every tool
\* and the termination signal, with the three kinds of upstream outcome.
InitLifecycle == Start(Envs)

NextLifecycle ==
    \/ \E c \in Calls : JoinMeeting(c, MeetCode, Agent)
    \/ \E c \in Calls, out \in TranscriptOutcomes, b \in BotIds :
          JoinMeetingResume(c, out, b)
    \/ \E c \in Calls, b \in BotIds : GetTranscript(c, b)
    \/ \E c \in Calls, out \in TranscriptOutcomes : GetTranscriptResume(c, out)
    \/ \E c \in Calls, b \in BotIds, t \in BriefTexts : Speak(c, b, t)
    \/ \E c \in Calls, out \in TranscriptOutcomes : SpeakResume(c, out)
    \/ \E c \in Calls, out \in TranscriptOutcomes : SpeakTtsResume(c, out)
    \/ \E c \in Calls, out \in TranscriptOutcomes : SpeakPushResume(c, out)
    \/ \E c \in Calls : SpeakBackoffElapsed(c)
    \/ \E c \in Calls, b \in BotIds : SendChat(c, b)
    \/ \E c \in Calls, out \in TranscriptOutcomes : SendChatResume(c, out)
    \/ \E c \in Calls, b \in BotIds : LeaveMeeting(c, b)
    \/ \E c \in Calls, out \in TranscriptOutcomes : LeaveMeetingResume(c, out)
    \/ \E c \in Calls, b \in BotIds : BotStatus(c, b)
    \/ \E c \in Calls, out \in TranscriptOutcomes : BotStatusResume(c, out)
    \/ \E c \in Calls : CheckConnection(c)
    \/ \E c \in Calls, out \in TranscriptOutcomes : CheckConnectionResume(c, out)
    \/ \E c \in Calls, out \in TranscriptOutcomes : CheckOpenAiResume(c, out)
    \/ GracefulShutdown
    \/ \E i \in 1..MaxSignals, b \in BotIds, out \in TranscriptOutcomes :
          ShutdownSettled(i, b, out)

SpecLifecycle == InitLifecycle /\ [][NextLifecycle]_vars

\* Every outbound request is answered or times out (timeoutSignal,
\* index.js:32-35, on every fetch), and every timer fires (sleep,
\* index.js:57-59): the continuation of an invocation that waits, and of a
\* shutdown that waits, eventually runs.
LiveBots == {"b1"}

Respond(c) ==
    \/ \E out \in TranscriptOutcomes, b \in LiveBots : JoinMeetingResume(c, out, b)
    \/ \E out \in TranscriptOutcomes : GetTranscriptResume(c, out)
    \/ \E out \in TranscriptOutcomes : SpeakResume(c, out)
    \/ \E out \in TranscriptOutcomes : SpeakTtsResume(c, out)
    \/ \E out \in TranscriptOutcomes : SpeakPushResume(c, out)
    \/ SpeakBackoffElapsed(c)
    \/ \E out \in TranscriptOutcomes : SendChatResume(c, out)
    \/ \E out \in TranscriptOutcomes : LeaveMeetingResume(c, out)
    \/ \E out \in TranscriptOutcomes : BotStatusResume(c, out)
    \/ \E out \in TranscriptOutcomes : CheckConnectionResume(c, out)
    \/ \E out \in TranscriptOutcomes : CheckOpenAiResume(c, out)

ShutdownRespond ==
    \E i \in 1..MaxSignals, b \in LiveBots, out \in TranscriptOutcomes :
        ShutdownSettled(i, b, out)

\* every operation and the shutdown, the upstream creating one bot
NextLive ==
    \/ \E c \in Calls : JoinMeeting(c, MeetCode, Agent)
    \/ \E c \in Calls, b \in BotIds : GetTranscript(c, b)
    \/ \E c \in Calls, b \in BotIds, t \in BriefTexts : Speak(c, b, t)
    \/ \E c \in Calls, b \in BotIds : SendChat(c, b)
    \/ \E c \in Calls, b \in BotIds : LeaveMeeting(c, b)
    \/ \E c \in Calls, b \in BotIds : BotStatus(c, b)
    \/ \E c \in Calls : CheckConnection(c)
    \/ \E c \in Calls : Respond(c)
    \/ GracefulShutdown
    \/ ShutdownRespond

SpecLive ==
    /\ Init
    /\ [][NextLive]_vars
    /\ \A c \in Calls : WF_vars(Respond(c))
    /\ WF_vars(ShutdownRespond)

----------------------------------------------------------------------------
(* Properties *)

Done(c, op) == calls[c].op = op /\ calls[c].pc = "done"

\* the invocation c is started by this step, as op
Invoked(c, op) == Ready(c) /\ calls'[c] # calls[c] /\ calls'[c].op = op

FetchSucceeded(c) ==
    Done(c, "get_transcript") /\ calls[c].result.kind \in {"no_new_speech", "own_echo", "lines"}

\* the adapter invocations of a speak: each starts with the speak request
\* (Hosted) or the synthesis request (Direct)
AdapterCalls(c) ==
    Len(SelectSeq(calls[c].log, LAMBDA r : r.what \in {"speak", "tts"}))

\* C1: the stored cursor never decreases: once it is non-null, its value after
\* a successful fetch is at least its value before that fetch.
CursorNeverDecreases ==
    \A c \in AllCalls :
        (FetchSucceeded(c) /\ calls[c].cursorBefore # Null)
            => calls[c].cursorAfter >= calls[c].cursorBefore

\* C2: upstream snapshots being append-only, no entry is returned by two
\* get_transcript calls on the same session.
NoEntryReturnedTwice ==
    \A c \in AllCalls : FetchSucceeded(c) => calls[c].redelivered = {}

\* C3: upstream snapshots being append-only, every entry that the previous
\* successful fetch of the session had not seen and that is not self-echo is
\* among the lines of the next successful fetch.
NoNewEntrySkipped ==
    \A c \in AllCalls : FetchSucceeded(c) => calls[c].missed = {}

\* C4: whatever the upstream does with the leave request (2xx, non-2xx, a
\* rejected request), leave_meeting returns, and with the bot absent from
\* the registry.
LeaveAlwaysRemoves ==
    [][\A c \in AllCalls :
          (calls[c].pc = "await_leave" /\ calls'[c] # calls[c])
              => /\ calls'[c].pc = "done"
                 /\ calls[c].bot_id \notin DOMAIN activeBots']_vars

\* a leave_meeting of a registered bot returned after the upstream answered 500
LeaveAfter500 ==
    \E c \in AllCalls :
        /\ Done(c, "leave_meeting") /\ calls[c].had
        /\ calls[c].last.kind = "status" /\ calls[c].last.status = 500
        /\ calls[c].bot_id \notin DOMAIN activeBots

\* C5: get_transcript on a bot that is not registered returns the unknown-bot
\* message at once, issues no upstream request and leaves the registry and
\* its sessions as they were.
UnknownBotNoRequest ==
    [][\A c \in AllCalls :
          (Invoked(c, "get_transcript") /\ calls'[c].bot_id \notin DOMAIN activeBots)
              => /\ calls'[c].pc = "done"
                 /\ calls'[c].result.kind = "unknown_bot"
                 /\ calls'[c].log = <<>>
                 /\ activeBots' = activeBots /\ heap' = heap]_vars

\* get_transcript answered unknown-bot for a bot never joined, another bot
\* being registered
UnknownNeverJoined ==
    \E c \in AllCalls :
        /\ Done(c, "get_transcript") /\ calls[c].result.kind = "unknown_bot"
        /\ calls[c].bot_id \notin left
        /\ DOMAIN activeBots # {}

\* C6: once leave_meeting(b) has returned, b is not in the registry and every
\* get_transcript(b) started later answers unknown-bot, until a join_meeting
\* is given the identifier b by the upstream: nothing else registers b again.
NoReturnFromLeft ==
    /\ [](left \cap DOMAIN activeBots = {})
    /\ [][\A b \in left :
            /\ \A c \in AllCalls :
                  (Invoked(c, "get_transcript") /\ calls'[c].bot_id = b)
                      => calls'[c].pc = "done" /\ calls'[c].result.kind = "unknown_bot"
            /\ b \in DOMAIN activeBots'
                  => \E c \in AllCalls :
                        /\ calls[c].pc = "await_create"
                        /\ calls'[c].result.kind = "created"
                        /\ calls'[c].result.bot_id = b]_vars

\* get_transcript answered unknown-bot for a bot that had joined and left
UnknownAfterLeave ==
    \E c \in AllCalls :
        /\ Done(c, "get_transcript") /\ calls[c].result.kind = "unknown_bot"
        /\ calls[c].bot_id \in left

\* C7: a speak whose first attempt fails and whose second succeeds returns the
\* success marked as retried, after exactly two adapter invocations; one whose
\* first attempt succeeds returns the unmarked success after exactly one; so
\* a success is marked if and only if a retry was needed.
SpeakRetryMark ==
    \A c \in AllCalls :
        Done(c, "speak") =>
            /\ calls[c].attempts = <<"fail", "ok">>
                  => calls[c].result.kind = "spoke_retry" /\ AdapterCalls(c) = 2
            /\ calls[c].attempts = <<"ok">>
                  => calls[c].result.kind = "spoke" /\ AdapterCalls(c) = 1
            /\ calls[c].result.kind = "spoke_retry" => calls[c].attempts = <<"fail", "ok">>
            /\ calls[c].result.kind = "spoke" => calls[c].attempts = <<"ok">>

\* a speak succeeded on its second attempt
SpokeOnRetry ==
    \E c \in AllCalls :
        /\ Done(c, "speak") /\ calls[c].attempts = <<"fail", "ok">>
        /\ calls[c].result.kind = "spoke_retry"

\* C8: in either mode a speak whose first attempt fails (non-2xx response or
\* rejected request) makes exactly one more attempt, after the backoff; no
\* speak makes more than two; a failing second attempt is reported as the
\* failure after a retry.
SpeakRetriedOnAnyFailure ==
    \A c \in AllCalls :
        Done(c, "speak") =>
            /\ Len(calls[c].attempts) <= 2
            /\ calls[c].attempts[1] = "fail"
                  => Len(calls[c].attempts) = 2 /\ Len(Timers(c)) = 1
            /\ calls[c].attempts = <<"fail", "fail">>
                  => calls[c].result.kind = "speak_failed"

JoinLeaveSingleRequest ==
    \A c \in AllCalls :
        calls[c].op \in {"join_meeting", "leave_meeting"}
            => Len(Requests(c)) = 1 /\ Len(Timers(c)) = 0

\* a join_meeting returned after a non-2xx response
JoinFailedOnce ==
    \E c \in AllCalls :
        /\ Done(c, "join_meeting") /\ calls[c].last.kind = "status"
        /\ calls[c].result.kind = "api_error"

\* C11: join_meeting inserts a session if and only if the upstream create
\* succeeded: after a 2xx response the registry maps the returned identifier
\* to a session with the caller's display name, the normalized meeting
\* reference and a null cursor, and holds the other sessions as before; after
\* a non-2xx response or a rejected request the registry and its sessions
\* are as they were.
JoinInsertsIffCreated ==
    [][\A c \in AllCalls :
          (calls[c].pc = "await_create" /\ calls'[c] # calls[c]) =>
             /\ \A b \in DOMAIN activeBots \ {calls'[c].result.bot_id} :
                   /\ b \in DOMAIN activeBots'
                   /\ heap'[activeBots'[b]] = heap[activeBots[b]]
             /\ IF calls'[c].last.kind = "ok"
                THEN LET b == calls'[c].result.bot_id IN
                     /\ calls'[c].result.kind = "created"
                     /\ DOMAIN activeBots' = DOMAIN activeBots \cup {b}
                     /\ heap'[activeBots'[b]].live
                     /\ heap'[activeBots'[b]].name = calls[c].bot_name
                     /\ heap'[activeBots'[b]].meetingUrl
                           = NormalizeUrl(calls[c].meeting_url)
                     /\ heap'[activeBots'[b]].lastTranscriptTs = Null
                ELSE /\ calls'[c].result.kind \in {"api_error", "exception"}
                     /\ DOMAIN activeBots' = DOMAIN activeBots]_vars

\* a join_meeting registered the session of its bot beside another session,
\* with the display name, the normalized reference and no cursor
JoinCreatedSession ==
    \E c \in AllCalls :
        /\ Done(c, "join_meeting") /\ calls[c].result.kind = "created"
        /\ Cardinality(DOMAIN activeBots) = 2
        /\ calls[c].result.bot_id \in DOMAIN activeBots
        /\ LET bot == heap[activeBots[calls[c].result.bot_id]] IN
           /\ bot.name = Bot1
           /\ bot.meetingUrl = MeetPrefix \o CustomCode
           /\ bot.lastTranscriptTs = Null

\* C12, as claimed: a meeting code, and any other input that does not begin
\* with a scheme prefix (letters followed by "://"), is rewritten to the
\* meeting-platform URL of it; an input that begins with a scheme prefix is
\* passed through unchanged.
SchemeNormalization ==
    \A c \in AllCalls :
        calls[c].pc = "await_create" =>
            LET in == calls[c].meeting_url
                scheme == \E n \in 1..Len(in) :
                              /\ \A k \in 1..n : in[k] \in LowerLetters
                              /\ Len(in) >= n + 3
                              /\ SubSeq(in, n + 1, n + 3) = <<":", "/", "/">>
            IN calls[c].url = IF IsMeetCode(in) \/ ~scheme THEN MeetPrefix \o in ELSE in

\* C12, amended: an input that begins with the four characters "http" is
\* passed through unchanged, whatever follows them; every other input (a
\* meeting code, any other text, a URL of another scheme) is rewritten to
\* the meeting-platform prefix followed by the input.
HttpNormalization ==
    \A c \in AllCalls :
        calls[c].pc = "await_create" =>
            LET in == calls[c].meeting_url IN
            IF Len(in) >= 4 /\ in[1] = "h" /\ in[2] = "t" /\ in[3] = "t" /\ in[4] = "p"
            THEN calls[c].url = in
            ELSE /\ Len(calls[c].url) = Len(MeetPrefix) + Len(in)
                 /\ SubSeq(calls[c].url, 1, Len(MeetPrefix)) = MeetPrefix
                 /\ SubSeq(calls[c].url, Len(MeetPrefix) + 1, Len(calls[c].url)) = in

\* a join_meeting was given a URL of another scheme and prefixed it
FtpUrlPrefixed ==
    \E c \in AllCalls :
        /\ calls[c].pc = "await_create"
        /\ calls[c].meeting_url = FtpUrl
        /\ calls[c].url = MeetPrefix \o FtpUrl

\* C13: among the new entries of a successful fetch, an entry is left out of
\* the returned lines if and only if its rendered line "speaker: text" begins
\* with the session's display name followed by a colon and a space; every
\* other new entry is returned.
SelfEchoFilter ==
    [][\A c \in AllCalls :
          (calls[c].pc = "await_transcript" /\ calls'[c].last.kind = "ok"
              /\ calls'[c].pc = "done") =>
             LET name == heap[calls[c].bot].name
                 snapshot == calls[c].snap
                 lines == calls'[c].result.lines
             IN {lines[i] : i \in 1..Len(lines)}
                  = {i \in calls'[c].new :
                        ~startsWith(renderLine(snapshot[i]), name \o <<":", " ">>)}]_vars

\* the step is a get_transcript of c receiving a 2xx response
FetchReturns(c) ==
    /\ calls[c].pc = "await_transcript"
    /\ calls'[c].pc = "done"
    /\ calls'[c].last.kind = "ok"

\* C14: with a null cursor every entry of the snapshot is new, entries without
\* word timestamps included; with a non-null cursor an entry is new if and
\* only if its last word has an end timestamp strictly greater than the
\* cursor (none is, when the cursor holds no timestamp).
NewEntryRule ==
    [][\A c \in AllCalls :
          FetchReturns(c) =>
             LET cursor == heap[calls[c].bot].lastTranscriptTs
                 snapshot == calls[c].snap
             IN \A i \in 1..Len(snapshot) :
                   LET words == snapshot[i].words IN
                   i \in calls'[c].new
                     <=> \/ cursor = Null
                         \/ /\ cursor \in Timestamps
                            /\ words # <<>>
                            /\ words[Len(words)] \in Timestamps
                            /\ words[Len(words)] > cursor]_vars

\* a fetch with a cursor found some entries of the snapshot new and others
\* not, its cursor staying where it was
SomeNewSomeOld ==
    \E c \in AllCalls :
        /\ FetchSucceeded(c) /\ calls[c].cursorBefore # Null
        /\ calls[c].cursorAfter = calls[c].cursorBefore
        /\ calls[c].new # {}
        /\ calls[c].bot_id \in DOMAIN activeBots
        /\ Cardinality(calls[c].new) < heap[activeBots[calls[c].bot_id]].seen

\* C15: after a successful fetch whose snapshot is not empty and whose last
\* entry has an effective timestamp (its last word has an end timestamp), the
\* cursor is that timestamp, whether or not the entry was new or any line
\* was returned; after a fetch of an empty snapshot, or of one whose last
\* entry has no effective timestamp, the cursor is what it was.
CursorFollowsLastEntry ==
    [][\A c \in AllCalls :
          (FetchReturns(c) /\ calls[c].bot_id \in DOMAIN activeBots') =>
             LET before == heap[calls[c].bot].lastTranscriptTs
                 after == heap'[activeBots'[calls[c].bot_id]].lastTranscriptTs
                 snapshot == calls[c].snap
                 words == snapshot[Len(snapshot)].words
             IN IF snapshot # <<>> /\ words # <<>> /\ words[Len(words)] \in Timestamps
                THEN after = words[Len(words)]
                ELSE after = before]_vars

\* C16: a successful fetch with no new entries returns the no-new-speech
\* sentinel; one whose new entries are all the bot's own lines returns the
\* own-echo sentinel; any other returns one line for each remaining entry, in
\* the order of the snapshot.
ResultShape ==
    [][\A c \in AllCalls :
          FetchReturns(c) =>
             LET new == calls'[c].new
                 snapshot == calls[c].snap
                 own == {i \in new : isOwnLine(renderLine(snapshot[i]), heap[calls[c].bot].name)}
                 result == calls'[c].result
             IN /\ new = {} <=> result.kind = "no_new_speech"
                /\ (new # {} /\ new = own) <=> result.kind = "own_echo"
                /\ new # own <=>
                      /\ result.kind = "lines"
                      /\ {result.lines[i] : i \in 1..Len(result.lines)} = new \ own
                      /\ \A i, j \in 1..Len(result.lines) :
                            i < j => result.lines[i] < result.lines[j]]_vars

\* a fetch found new entries, every one of them the bot's own line
OnlyOwnEcho ==
    \E c \in AllCalls :
        /\ FetchSucceeded(c) /\ calls[c].result.kind = "own_echo"
        /\ calls[c].new # {}

\* C17: with the Hosted credential the mode is Hosted, the Direct credentials
\* present or not; without it and with both Direct credentials the mode is
\* Direct; otherwise the process has exited with status 1 and has served
\* nothing. A serving process is in exactly one mode, and the mode never
\* changes.
ModeSelection ==
    /\ [](/\ env.GROUPTHINK_TOKEN
             => isHostedMode /\ ~isDirectMode /\ process # [state |-> "exited", code |-> 1]
          /\ (~env.GROUPTHINK_TOKEN /\ env.RECALL_TOKEN /\ env.OPENAI_KEY)
             => isDirectMode /\ ~isHostedMode /\ process # [state |-> "exited", code |-> 1]
          /\ (~env.GROUPTHINK_TOKEN /\ ~(env.RECALL_TOKEN /\ env.OPENAI_KEY))
             => /\ process = [state |-> "exited", code |-> 1]
                /\ \A c \in AllCalls : calls[c] = IdleCall
                /\ shutdown = NoShutdown
          /\ Serving => (isHostedMode # isDirectMode))
    /\ [][isHostedMode' = isHostedMode /\ isDirectMode' = isDirectMode]_vars

\* a process holding all three credentials served a tool call, through the
\* intermediary
HostedDespiteDirectKeys ==
    /\ env.GROUPTHINK_TOKEN /\ env.RECALL_TOKEN /\ env.OPENAI_KEY
    /\ isHostedMode
    /\ \E c \in AllCalls :
          /\ calls[c].pc = "done" /\ calls[c].log # <<>>
          /\ calls[c].log[1].api = "groupthink"

\* C18: in Hosted mode every upstream request of a tool handler and of the
\* shutdown handler goes to the intermediary, none to the bot platform or
\* the synthesis platform; in Direct mode none goes to the intermediary.
ModeNeverMixed ==
    LET right(api) == IF isHostedMode THEN api = "groupthink"
                      ELSE api \in {"recall", "openai"}
    IN /\ \A c \in AllCalls : \A i \in 1..Len(calls[c].log) :
             calls[c].log[i].api # "timer" => right(calls[c].log[i].api)
       /\ \A i \in 1..Len(shutdown.log) : right(shutdown.log[i].api)

\* in Hosted mode a speak was retried and the shutdown handler asked a bot
\* to leave
HostedRetryAndShutdown ==
    /\ isHostedMode
    /\ shutdown.log # <<>>
    /\ \E c \in AllCalls : calls[c].op = "speak" /\ AdapterCalls(c) = 2

\* the request of c that settled last
LastRequest(c) == Requests(c)[Len(Requests(c))]

\* C19: the normalizer maps 401 to the authentication failure, 403 to the
\* not-authorized failure, 404 to the not-found failure, 429 to the
\* rate-limit failure, every status from 500 up to the service error, and
\* every other status to the generic error that quotes the status and, as
\* detail, the payload's detail field, else its error field, else the whole
\* payload; a status has one category only.
ErrorCategories ==
    \A c \in AllCalls :
        (calls[c].pc = "done" /\ calls[c].result.kind = "api_error") =>
            LET status == calls[c].last.status
                data == calls[c].last.data
                error == calls[c].result.error
            IN /\ calls[c].last.kind = "status"
               /\ error.cat = "auth_failed" <=> status = 401
               /\ error.cat = "not_authorized" <=> status = 403
               /\ error.cat = "not_found" <=> status = 404
               /\ error.cat = "rate_limited" <=> status = 429
               /\ error.cat = "service_error" <=> status >= 500
               /\ error.cat = "api_error"
                     <=> status < 500 /\ status \notin {401, 403, 404, 429}
               /\ error.cat = "api_error" =>
                     /\ error.status = status
                     /\ data.detail # "" => error.detail = data.detail
                     /\ (data.detail = "" /\ data.error # "") => error.detail = data.error
                     /\ (data.detail = "" /\ data.error = "") => error.detail = "json"

\* a tool reported the generic error of status 402, quoting the payload's
\* error field for want of a detail field
GenericErrorQuotesErrorField ==
    \E c \in AllCalls :
        /\ calls[c].pc = "done" /\ calls[c].result.kind = "api_error"
        /\ calls[c].last.status = 402
        /\ calls[c].last.data.detail = "" /\ calls[c].last.data.error = "e"
        /\ calls[c].result.error = [cat |-> "api_error", status |-> 402, detail |-> "e"]

\* C20, as claimed: whatever the mode and whatever upstream call answered
\* non-2xx, the synthesis call of Direct-mode speak included, the failure a
\* tool reports is the normalizer's category of that status.
EveryFailureNormalized ==
    \A c \in AllCalls :
        calls[c].pc = "done" =>
            /\ (calls[c].last.kind = "status"
                   /\ calls[c].result.kind \in {"api_error", "speak_failed"})
                 => calls[c].result.error.cat
                      = humanRecallError(calls[c].last.status, calls[c].last.data).cat
            /\ \A i \in 1..Len(calls[c].result.checks) :
                 LET check == calls[c].result.checks[i] IN
                 check.out.kind = "status"
                    => check.error.cat = humanRecallError(check.out.status, check.out.data).cat

\* C20, amended: a non-2xx status of the intermediary or of the bot platform
\* is reported as the normalizer's message for that status and payload, the
\* same in both modes (check_connection gives the normalizer an empty
\* payload); a non-2xx status of the synthesis platform is not normalized:
\* speak and check_connection report the bare status.
PlatformFailuresNormalized ==
    \A c \in AllCalls :
        calls[c].pc = "done" =>
            /\ (calls[c].last.kind = "status"
                   /\ calls[c].result.kind \in {"api_error", "speak_failed"})
                 => IF LastRequest(c).api = "openai"
                    THEN /\ calls[c].result.via = "TTS failed"
                         /\ calls[c].result.error.cat = ""
                         /\ calls[c].result.error.status = calls[c].last.status
                    ELSE calls[c].result.error
                           = humanRecallError(calls[c].last.status, calls[c].last.data)
            /\ \A i \in 1..Len(calls[c].result.checks) :
                 LET check == calls[c].result.checks[i] IN
                 check.out.kind = "status"
                    => IF check.api = "openai"
                       THEN check.error.cat = "" /\ check.error.status = check.out.status
                       ELSE check.error = humanRecallError(check.out.status, NoPayload)

\* a Direct-mode speak reported the bare status of the synthesis platform
TtsFailureReportedRaw ==
    \E c \in AllCalls :
        /\ Done(c, "speak") /\ calls[c].result.kind = "speak_failed"
        /\ calls[c].last.kind = "status" /\ calls[c].last.status = 401
        /\ LastRequest(c).api = "openai"
        /\ calls[c].result.via = "TTS failed"
        /\ calls[c].result.error.status = 401

\* C21: whatever the upstream does, a rejected request (timeout, transport
\* error) included, join_meeting, get_transcript, speak, send_chat and
\* bot_status end with a text result: no failure leaves the handler as an
\* exception, and none ends the process.
NoFailureEscapes ==
    \A c \in AllCalls :
        (calls[c].pc = "done"
            /\ calls[c].op \in {"join_meeting", "get_transcript", "speak",
                                 "send_chat", "bot_status"})
          => calls[c].result.kind # "exception"

\* the requests among the entries of a log
RequestsOf(log) == SelectSeq(log, LAMBDA r : r.api # "timer")

\* C22: in Direct mode the audio push is issued only when the synthesis
\* request of the same attempt got a 2xx response, and not when it failed;
\* the retry starts again with the synthesis; and speak reports success only
\* at a 2xx response to an audio push.
DirectSpeakComposite ==
    [][\A c \in AllCalls :
          (~isHostedMode /\ calls'[c].op = "speak" /\ calls'[c] # calls[c]) =>
             LET before == RequestsOf(calls[c].log)
                 after == RequestsOf(calls'[c].log)
                 issued == IF calls[c].op = "speak"
                           THEN SubSeq(after, Len(before) + 1, Len(after))
                           ELSE after
             IN /\ Len(issued) <= 1
                /\ (issued # <<>> /\ issued[1].what = "output_audio")
                      => calls[c].pc = "await_tts" /\ calls'[c].last.kind = "ok"
                /\ (calls[c].pc = "await_tts" /\ calls'[c].last.kind # "ok")
                      => issued = <<>>
                /\ calls[c].pc = "backoff"
                      => Len(issued) = 1 /\ issued[1].what = "tts"
                /\ calls'[c].result.kind \in {"spoke", "spoke_retry"}
                      => calls[c].pc = "await_push" /\ calls'[c].last.kind = "ok"]_vars

\* a Direct-mode speak whose first push failed synthesized and pushed again,
\* and spoke
SpokeAfterFailedPush ==
    \E c \in AllCalls :
        /\ ~isHostedMode /\ Done(c, "speak")
        /\ calls[c].result.kind = "spoke_retry"
        /\ Len(Requests(c)) = 4
        /\ Requests(c)[3].what = "tts" /\ Requests(c)[4].what = "output_audio"

\* C24: for every bot, registered or not, and whatever the upstream did with
\* the leave request, leave_meeting returns the same confirmation, never an
\* error.
LeaveAlwaysConfirms ==
    \A c \in AllCalls :
        calls[c].op = "leave_meeting" =>
            /\ calls[c].pc \in {"await_leave", "done"}
            /\ calls[c].pc = "done" => calls[c].result = Result("left")

\* a leave_meeting of a bot that was not registered was confirmed after its
\* request was rejected
LeaveUnknownConfirmed ==
    \E c \in AllCalls :
        /\ Done(c, "leave_meeting") /\ ~calls[c].had
        /\ calls[c].last.kind = "throw"
        /\ calls[c].result.kind = "left"

\* C23: a Hosted-mode speak issues one upstream request for each attempt;
\* the estimate its success reports is the one the response carries, or else
\* 0.065 s for each character of the text (to the nearest tenth), and the
\* wait it suggests is that estimate plus two seconds, rounded up.
HostedSpeakEstimate ==
    [][\A c \in AllCalls :
          (isHostedMode /\ calls'[c].op = "speak" /\ calls'[c] # calls[c]) =>
             /\ Len(RequestsOf(calls'[c].log))
                   = Len(calls'[c].attempts)
                       + (IF calls'[c].pc = "await_speak" THEN 1 ELSE 0)
             /\ \A i \in 1..Len(calls'[c].log) :
                   calls'[c].log[i].what \in {"speak", "sleep"}
             /\ calls'[c].result.kind \in {"spoke", "spoke_retry"} =>
                   LET given == calls'[c].last.data.estimated_duration
                       est == calls'[c].result.est
                       wait == calls'[c].result.wait
                   IN /\ given # Undefined => est = given
                      /\ given = Undefined
                            => /\ est * 100 - calls[c].text * 65 <= 50
                               /\ calls[c].text * 65 - est * 100 <= 50
                      /\ wait * 10 >= est + 20
                      /\ (wait - 1) * 10 < est + 20]_vars

\* a Hosted-mode speak reported the estimate of 1.5 s its response carried,
\* and a wait of 4 s
SpokeWithUpstreamEstimate ==
    \E c \in AllCalls :
        /\ isHostedMode /\ Done(c, "speak") /\ calls[c].result.kind = "spoke_retry"
        /\ calls[c].last.data.estimated_duration = 15
        /\ calls[c].result.est = 15 /\ calls[c].result.wait = 4

\* C25: a termination signal with bots registered issues, in one step and
\* before any of them settles, exactly one leave request for each registered
\* bot, and the process stays up; no leave request of a shutdown is ever
\* issued again; the process exits, with status 0, either at a signal that
\* finds the registry empty, without any request, or when the last pending
\* request of a shutdown has settled, whether its requests succeeded or not.
ShutdownFanOut ==
    [][LET before == Len(shutdown.log)
           issued == SubSeq(shutdown'.log, before + 1, Len(shutdown'.log))
           keys == DOMAIN activeBots
       IN /\ SubSeq(shutdown'.log, 1, before) = shutdown.log
          /\ issued # <<>> =>
                /\ process' = process
                /\ Len(issued) = Cardinality(keys)
                /\ {issued[k].bot : k \in 1..Len(issued)} = keys
                /\ \A k \in 1..Len(issued) :
                      issued[k].what = "leave" /\ issued[k].api = Api
                /\ shutdown'.pending = Append(shutdown.pending, keys)
          /\ (Serving /\ process'.state = "exited") =>
                /\ process'.code = 0
                /\ issued = <<>>
                /\ \/ keys = {} /\ shutdown' = shutdown
                   \/ \E i \in DOMAIN shutdown.pending :
                         /\ shutdown.pending[i] # {}
                         /\ shutdown'.pending[i] = {}]_vars

\* a shutdown with two bots registered exited with status 0 after both leave
\* requests had settled, the one for b1 having failed
ShutdownAfterFailedLeave ==
    /\ process = [state |-> "exited", code |-> 0]
    /\ Len(shutdown.log) = 2
    /\ shutdown.failed = {"b1"}
    /\ \E i \in DOMAIN shutdown.pending : shutdown.pending[i] = {}

\* C26: when every request is answered or times out and every timer fires,
\* an invocation that has started returns (or the process has exited
\* meanwhile), a speak having made at most two attempts and waited for at
\* most one backoff; and a shutdown that waits for its leave requests exits
\* the process.
Termination ==
    /\ \A c \in Calls :
          calls[c].pc \notin {"idle", "done"} ~> (calls[c].pc = "done" \/ ~Serving)
    /\ shutdown.pending # <<>> ~> process.state = "exited"
    /\ [](\A c \in Calls :
            /\ Len(calls[c].attempts) <= 2
            /\ Len(Timers(c)) <= 1
            /\ Len(Requests(c)) <= 4)

\* a speak returned after two failed attempts and one backoff
SpeakReturnedAfterRetry ==
    \E c \in Calls :
        /\ Done(c, "speak")
        /\ calls[c].attempts = <<"fail", "fail">>
        /\ Len(Timers(c)) = 1

\* C27: every outbound request carries a timeout: 60 seconds when it
\* synthesizes speech (the synthesis request of a Direct-mode speak, the
\* speak request of Hosted mode), 30 seconds otherwise.
\* Violated: the speak request of Hosted mode is bounded by 30 seconds.
TimeoutClasses ==
    LET bounded(r) ==
            r.timeout = IF r.what \in {"tts", "speak"}
                        THEN TTS_TIMEOUT ELSE RECALL_TIMEOUT
    IN /\ \A c \in AllCalls : \A i \in 1..Len(Requests(c)) : bounded(Requests(c)[i])
       /\ \A i \in 1..Len(shutdown.log) : bounded(shutdown.log[i])

\* C28: a step of a get_transcript, speak, send_chat, bot_status or
\* leave_meeting on one bot, however it interleaves with the invocations on
\* another registered bot, leaves that other bot registered, with the same
\* session and the same upstream transcript; and the lines a successful
\* get_transcript returns are computed from the session and the snapshot of
\* its own bot alone.
BotIsolation ==
    [][\A c \in AllCalls :
          (calls'[c] # calls[c]
             /\ calls'[c].op \in {"get_transcript", "speak", "send_chat",
                                  "bot_status", "leave_meeting"}) =>
             /\ \A B \in DOMAIN activeBots \ {calls'[c].bot_id} :
                   /\ B \in DOMAIN activeBots'
                   /\ heap'[activeBots'[B]] = heap[activeBots[B]]
                   /\ transcript'[B] = transcript[B]
             /\ (calls[c].pc = "await_transcript" /\ calls'[c].last.kind = "ok") =>
                   LET own == heap[calls[c].bot]
                   IN calls'[c].result.lines
                        = transcriptResult(newEntries(own.lastTranscriptTs, calls[c].snap),
                                           calls[c].snap, own.name).lines]_vars

\* the leave of b1 has finished while a get_transcript on b2 is in flight:
\* b2 is still registered, with the cursor its earlier fetch left
LeftWhileOtherFetches ==
    /\ Done("c1", "leave_meeting") /\ "b1" \in left
    /\ DOMAIN activeBots = {"b2"}
    /\ calls["c2"].pc = "await_transcript" /\ calls["c2"].bot_id = "b2"
    /\ heap[activeBots["b2"]].lastTranscriptTs # Null

\* C29: the step in which a get_transcript learns of a non-2xx response
\* leaves the registry and every session, the cursor included, as they
\* were, and returns the failure text of the normalized error.
FailedFetchChangesNothing ==
    [][\A c \in AllCalls :
          (calls[c].pc = "await_transcript" /\ calls'[c].pc = "done"
             /\ calls'[c].last.kind = "status") =>
             /\ DOMAIN activeBots' = DOMAIN activeBots
             /\ \A b \in DOMAIN activeBots :
                   heap'[activeBots'[b]] = heap[activeBots[b]]
             /\ transcript' = transcript
             /\ calls'[c].result.kind = "api_error"
             /\ calls'[c].result.label = "Failed to get transcript"
             /\ calls'[c].result.error
                   = humanRecallError(calls'[c].last.status, calls'[c].last.data)]_vars

\* a fetch failed with status 500 on a session that had read up to an entry:
\* its cursor is still there
FetchFailedCursorKept ==
    \E c \in AllCalls :
        /\ Done(c, "get_transcript")
        /\ calls[c].last.kind = "status" /\ calls[c].last.status = 500
        /\ calls[c].result.kind = "api_error"
        /\ calls[c].bot_id \in DOMAIN activeBots
        /\ heap[activeBots[calls[c].bot_id]].lastTranscriptTs \in Timestamps

RegistryContents ==
    /\ [](DOMAIN activeBots \cap left = {})
    /\ [][LET joined == {calls'[c].result.bot_id :
                           c \in {d \in AllCalls :
                                    /\ calls[d].pc = "await_create"
                                    /\ calls'[d].result.kind = "created"}}
              gone == {calls[c].bot_id :
                         c \in {d \in AllCalls :
                                  /\ calls[d].pc = "await_leave"
                                  /\ calls'[d].pc = "done"}}
          IN /\ DOMAIN activeBots' = (DOMAIN activeBots \cup joined) \ gone
             /\ \A b \in DOMAIN activeBots \cap DOMAIN activeBots' :
                   heap'[activeBots'[b]].lastTranscriptTs
                       # heap[activeBots[b]].lastTranscriptTs
                   => \E c \in AllCalls :
                         /\ calls[c].pc = "await_transcript"
                         /\ calls[c].bot_id = b
                         /\ calls'[c].pc = "done"]_vars

\* b2 was joined and has left, b1 was joined and has read its transcript;
\* the shutdown has asked b1 to leave, and b1 is still in the registry
RegisteredThroughShutdown ==
    /\ left = {"b2"}
    /\ DOMAIN activeBots = {"b1"}
    /\ heap[activeBots["b1"]].lastTranscriptTs \in Timestamps
    /\ Len(shutdown.log) = 1 /\ shutdown.log[1].bot = "b1"

\* C32: a get_transcript, however its response is ordered with the one of a
\* leave_meeting on the same bot, never puts a bot into the registry: the
\* step in which it returns leaves the set of registered bots as it was, and
\* a session it does not hold untouched; and the bot of a leave_meeting that
\* returns is absent from the registry.
LeaveNotUndoneByFetch ==
    [][\A c \in AllCalls :
          /\ (calls[c].pc = "await_transcript" /\ calls'[c].pc = "done") =>
                /\ DOMAIN activeBots' = DOMAIN activeBots
                /\ \A b \in DOMAIN activeBots :
                      activeBots[b] # calls[c].bot
                         => heap'[activeBots'[b]] = heap[activeBots[b]]
          /\ (calls[c].pc = "await_leave" /\ calls'[c].pc = "done") =>
                calls[c].bot_id \notin DOMAIN activeBots']_vars

\* a get_transcript on b1 returned its lines after the leave_meeting on b1
\* had returned: b1 is not in the registry
FetchReturnedAfterLeave ==
    /\ Done("c1", "leave_meeting") /\ calls["c1"].bot_id = "b1" /\ calls["c1"].had
    /\ Done("c2", "get_transcript") /\ calls["c2"].bot_id = "b1"
    /\ calls["c2"].last.kind = "ok" /\ calls["c2"].result.kind = "lines"
    /\ ~calls["c2"].had
    /\ "b1" \notin DOMAIN activeBots

\* C33: with two get_transcript invocations on the same bot in flight at
\* once, the upstream snapshots being append-only and in the order of their
\* timestamps, the cursor of a session never decreases.
\* Violated: the response to the earlier request, handled last, sets the
\* cursor back to the end of its shorter snapshot.
CursorMonotoneUnderOverlap ==
    [][\A b \in DOMAIN activeBots \cap DOMAIN activeBots' :
          heap[activeBots[b]].lastTranscriptTs # Null
             => heap'[activeBots'[b]].lastTranscriptTs
                   >= heap[activeBots[b]].lastTranscriptTs]_vars

\* C34: a termination signal issues no leave request for a bot whose leave
\* request of an earlier signal is still in flight.
\* Violated: the handler has no guard against running twice, a second
\* signal issues the leave request of every registered bot again.
NoSecondLeaveRequest ==
    [][\A k \in (Len(shutdown.log) + 1)..Len(shutdown'.log) :
          \A i \in DOMAIN shutdown.pending :
              shutdown'.log[k].bot \notin shutdown.pending[i]]_vars

\* C35: when the process has exited through the shutdown handler, every bot
\* of the registry has been sent a leave request by it.
\* Violated: a bot whose join_meeting returns after the signal is registered
\* and never asked to leave.
NoBotOrphaned ==
    (process = [state |-> "exited", code |-> 0])
       => \A b \in DOMAIN activeBots :
             \E k \in 1..Len(shutdown.log) : shutdown.log[k].bot = b

\* C38: a bot_status issues one upstream request. On a 2xx response it
\* reports the display name, the status, the meeting reference and the
\* creation time of the response, the status being, in Direct mode, the code
\* of the last status change, or "unknown" when the list is empty or
\* missing; on a non-2xx response it returns the normalized error. Neither
\* changes the registry or a session.
BotStatusReport ==
    [][\A c \in AllCalls :
          (calls[c].pc = "await_status" /\ calls'[c].pc = "done") =>
             LET out == calls'[c].last
                 data == out.data.info
                 report == calls'[c].result.report
             IN /\ Len(RequestsOf(calls'[c].log)) = 1
                /\ DOMAIN activeBots' = DOMAIN activeBots
                /\ \A b \in DOMAIN activeBots :
                      heap'[activeBots'[b]] = heap[activeBots[b]]
                /\ out.kind = "ok" =>
                      /\ calls'[c].result.kind = "status"
                      /\ report.bot_name = data.bot_name
                      /\ report.created_at = data.created_at
                      /\ report.meeting.ref = data.meeting_url.ref
                      /\ report.meeting.form \in {"string", "json"}
                      /\ isHostedMode => report.status = data.status
                      /\ ~isHostedMode =>
                            report.status =
                               IF data.has_changes /\ data.status_changes # <<>>
                               THEN data.status_changes[Len(data.status_changes)]
                               ELSE "unknown"
                /\ out.kind = "status" =>
                      calls'[c].result = formatApiError("Failed to check status",
                                                        out.status, out.data)]_vars

\* in Direct mode a bot_status of a registered bot reported the code of the
\* last of two status changes
LatestStatusReported ==
    \E c \in AllCalls :
        /\ ~isHostedMode /\ Done(c, "bot_status")
        /\ calls[c].bot_id \in DOMAIN activeBots
        /\ calls[c].last.data.info.status_changes = <<"joining", "in_call">>
        /\ calls[c].result.report.status = "in_call"

\* C37, as claimed: the normalized form of a meeting reference is
\* normalized to itself, and it begins with a scheme prefix (letters
\* followed by "://").
NormalizationIdempotentScheme ==
    \A c \in AllCalls :
        calls[c].pc = "await_create" =>
            LET url == calls[c].url IN
            /\ NormalizeUrl(url) = url
            /\ \E n \in 1..Len(url) :
                  /\ \A k \in 1..n : url[k] \in LowerLetters
                  /\ Len(url) >= n + 3
                  /\ SubSeq(url, n + 1, n + 3) = <<":", "/", "/">>

\* C37, amended: the normalized form of a meeting reference is normalized
\* to itself, and it begins with the four characters "http".
NormalizationIdempotentHttp ==
    \A c \in AllCalls :
        calls[c].pc = "await_create" =>
            LET url == calls[c].url IN
            /\ NormalizeUrl(url) = url
            /\ Len(url) >= 4
            /\ SubSeq(url, 1, 4) = <<"h", "t", "t", "p">>

\* a join_meeting was given "httpx": its normalized form is "httpx", which
\* has no scheme
HttpxPassedThrough ==
    \E c \in AllCalls :
        /\ calls[c].pc = "await_create"
        /\ calls[c].meeting_url = Httpx
        /\ calls[c].url = Httpx
        /\ NormalizeUrl(calls[c].url) = Httpx

\* C36: a speak, send_chat or bot_status has issued its upstream request
\* whatever the registry holds, it never answers that the bot is unknown,
\* and two of them that made the same requests and got the same responses,
\* one on a registered bot and one on a bot that is not, return the same
\* result.
RegistryNotConsulted ==
    LET free == {"speak", "send_chat", "bot_status"} IN
    /\ \A c \in AllCalls :
          calls[c].op \in free =>
             /\ Len(Requests(c)) >= 1
             /\ calls[c].result.kind # "unknown_bot"
    /\ \A c, d \in AllCalls :
          (/\ calls[c].op \in free /\ calls[d].op = calls[c].op
           /\ calls[c].pc = "done" /\ calls[d].pc = "done"
           /\ calls[c].log = calls[d].log
           /\ calls[c].attempts = calls[d].attempts
           /\ calls[c].last = calls[d].last)
             => calls[c].result = calls[d].result

\* a send_chat on the registered b1 and a send_chat on b2, which has left,
\* both sent their message
ChatSentForLeftBot ==
    /\ Done("c1", "send_chat") /\ calls["c1"].bot_id = "b1"
    /\ "b1" \in DOMAIN activeBots
    /\ Done("c2", "send_chat") /\ calls["c2"].bot_id = "b2"
    /\ "b2" \in left /\ "b2" \notin DOMAIN activeBots
    /\ calls["c1"].result = Result("chat_sent")
    /\ calls["c2"].result = Result("chat_sent")

====
